---- MODULE Spec2Model ----
(***************************************************************************)
(* State-machine model of the chaoschain-x402 payment facilitator          *)
(* (http-bridge): the /verify and /settle request handlers with the        *)
(* Verifier and the two settlement strategies, the token contracts they    *)
(* write to, and the background finality Confirmer.                        *)
(*                                                                         *)
(* The specifications of the module:                                       *)
(*   SpecVerifier      one call of verifyPaymentManaged over its inputs    *)
(*   SpecFee           the fee split over the gross amounts                *)
(*   SpecRegistry      the registry's lookups over networks and assets     *)
(*   Spec              the request gateway, Verifier, Settler and chain    *)
(*   SpecKeyed         Spec with clients that send an Idempotency-Key      *)
(*   SpecRate          Spec behind a rate limit, with the GET routes       *)
(*   SpecAgent         Spec with agent-identity anchoring                  *)
(*   SpecFaulty        Spec with malformed bodies and a failing            *)
(*                     idempotency store                                   *)
(*   SpecHeader        parsePaymentHeader and the signature of a           *)
(*                     settlement over the header shapes                   *)
(*   SpecConfirmer     the Confirmer's sweeps over the transaction store   *)
(*   SpecConfirmerRelayer  SpecConfirmer over the relayer's partial        *)
(*                     settlements                                         *)
(*   SpecConfirmerLive SpecConfirmer with a healthy RPC, a configured      *)
(*                     store and weak fairness of the timer, the awaits    *)
(*                     and block production                                *)
(***************************************************************************)
EXTENDS Integers, Sequences, FiniteSets, TLC

(***************************************************************************)
(* Bounds of the model.                                                    *)
(***************************************************************************)
\* rows seeded in the transactions table
MaxRecords == 3
\* rows one sweep fetches: confirmer.ts:31 uses .limit(50); the model scales
\* the limit down together with the number of rows
Limit == 2
\* sweeps that may be in flight at once (setInterval does not wait for the
\* previous sweep to end)
MaxSweeps == 2
\* height of the chain heads when the model starts
FirstBlock == 100
\* blocks the chains produce during a run
MaxBlocks == 2

\* requests the gateway receives during a run
MaxReqs == 2
\* ticks of the wall clock during a run
MaxTime == 1
\* time-to-live of an idempotency entry, in ticks
TTL == 1
\* maxAmountRequired of the modelled requests, in base units
Amount == 200
\* what the second USDC authorization signs on top of maxAmountRequired
Tip == 50
\* feeBps of the Fee Engine (spec 4.3)
FeeBps == 100
\* what the clock reads during a call of the Verifier checked on its own
Clock == 5
\* largest gross amount the Fee Engine is checked on
MaxGross == 250
\* the rate limit of the client that exceeds it: requests per window
RateMax == 1
\* and the length of the window, in ticks
RateWindow == 1

VARIABLES
  \* ---- Gateway, Verifier, Settler ----
  reqs,                \* request id -> state of its handler
  cache,               \* idempotency cache: fingerprint -> entry
  balance,             \* token -> the payer's balance
  allowance,           \* token -> the payer's allowance to the facilitator
  authUsed,            \* EIP-3009 nonces of the payer consumed on chain
  txs,                 \* transactions the facilitator wallet broadcast, by hash
  limiter,             \* the rate limiter's fixed-window counter
  \* ---- Confirmer ----
  store,               \* transactions table: id -> row
  head,                \* chain -> current block number
  sweeps,              \* sweep slot -> state of one confirmPendingTransactions() call
  supabaseConfigured,  \* SUPABASE_URL and SUPABASE_SERVICE_KEY are set
  \* ---- shared ----
  now,                 \* wall clock
  rpcFlaky,            \* RPC calls and store calls may fail transiently
  config,              \* the bridge's configuration (FACILITATOR_MODE, CRE_MODE,
                       \* rate-limit parameters)
  traffic,             \* which clients send requests during the run
  \* ---- functions checked on their own ----
  call                 \* one call of a function: its arguments and its result

confVars == <<store, head, sweeps, supabaseConfigured>>
gwVars == <<reqs, cache, balance, allowance, authUsed, txs, limiter>>
auxVars == <<config, traffic, call>>
vars == <<reqs, cache, balance, allowance, authUsed, txs, limiter,
          store, head, now, sweeps, supabaseConfigured, rpcFlaky, config, traffic, call>>

(***************************************************************************)
(* Chain registry (config/chains.ts).                                      *)
(***************************************************************************)
CHAINS ==
  [n \in {"base-sepolia", "ethereum-sepolia", "0g-testnet", "skale-base-sepolia",
          "base-mainnet", "ethereum-mainnet", "0g-mainnet"} |->
     [confirmations |->
        CASE n = "base-sepolia"       -> 2
          [] n = "ethereum-sepolia"   -> 3
          [] n = "0g-testnet"         -> 1
          [] n = "skale-base-sepolia" -> 1
          [] n = "base-mainnet"       -> 2
          [] n = "ethereum-mainnet"   -> 3
          [] n = "0g-mainnet"         -> 5,
      defaultToken |->
        CASE n = "0g-testnet" -> "0g"
          [] n = "0g-mainnet" -> "w0g"
          [] OTHER            -> "usdc"]]

\* getChainConfig throws `Unsupported network` for a slug outside CHAINS
getChainConfig(network) ==
  IF network \in DOMAIN CHAINS
    THEN [ok |-> TRUE, config |-> CHAINS[network]]
    ELSE [ok |-> FALSE, error |-> "Unsupported network"]

getConfirmations(network) ==
  LET c == getChainConfig(network)
  IN  IF c.ok THEN [ok |-> TRUE, value |-> c.config.confirmations]
              ELSE [ok |-> FALSE, error |-> c.error]

\* outcomes of an RPC call or a store call
Outcomes == IF rpcFlaky THEN {"ok", "throw"} ELSE {"ok"}

(***************************************************************************)
(* Token registry (config/chains.ts).                                      *)
(***************************************************************************)
ZeroAddress == "0x0000000000000000000000000000000000000000"

TOKENS ==
  [t \in {"usdc", "w0g", "0g", "eth", "credit"} |->
     [symbol          |-> t,
      supportsEIP3009 |-> (t = "usdc"),
      decimals        |-> IF t = "usdc" THEN 6 ELSE 18,
      addresses       |->
        CASE t = "usdc" ->
               [n \in {"base-sepolia", "ethereum-sepolia", "skale-base-sepolia",
                       "base-mainnet", "ethereum-mainnet"} |->
                  CASE n = "base-sepolia"       -> "0x036CbD53842c5426634e7929541eC2318f3dCF7e"
                    [] n = "ethereum-sepolia"   -> "0x1c7D4B196Cb0C7B01d743Fbc6116a902379C7238"
                    [] n = "skale-base-sepolia" -> "0x2e08028E3C4c2356572E096d8EF835cD5C6030bD"
                    [] n = "base-mainnet"       -> "0x833589fCD6eDb6E08f4c7C32D4f71b54bdA02913"
                    [] n = "ethereum-mainnet"   -> "0xA0b86991c6218b36c1d19D4a2e9Eb0cE3606eB48"]
          [] t = "w0g"  ->
               [n \in {"0g-mainnet"} |-> "0x1Cd0690fF9a693f5EF2dD976660a8dAFc81A109c"]
          [] t = "0g"   -> [n \in {"0g-testnet", "0g-mainnet"} |-> ZeroAddress]
          [] t = "eth"  ->
               [n \in {"ethereum-sepolia", "base-sepolia", "skale-base-sepolia",
                       "base-mainnet", "ethereum-mainnet"} |-> ZeroAddress]
          [] OTHER      -> [n \in {} |-> ZeroAddress]]]

\* String.prototype.toLowerCase on the asset strings of the model: the upper-case
\* spelling of a symbol, and the mixed-case checksum form of a contract address
ToLowerCase(str) ==
  CASE str = "USDC" -> "usdc"
    [] str = "W0G"  -> "w0g"
    [] str = "0x036CbD53842c5426634e7929541eC2318f3dCF7e"
         -> "0x036cbd53842c5426634e7929541ec2318f3dcf7e"
    [] str = "0x1Cd0690fF9a693f5EF2dD976660a8dAFc81A109c"
         -> "0x1cd0690ff9a693f5ef2dd976660a8dafc81a109c"
    [] OTHER -> str

\* getTokenConfig looks the lower-cased argument up among the symbols and throws
\* `Unsupported token` when TOKENS has no such key
getTokenConfig(symbol) ==
  IF ToLowerCase(symbol) \in DOMAIN TOKENS
    THEN [ok |-> TRUE, config |-> TOKENS[ToLowerCase(symbol)]]
    ELSE [ok |-> FALSE, error |-> "Unsupported token"]

\* Names every object literal inherits from Object.prototype (two of them
\* stand for all), and what reading a property yields.
ObjectPrototypeKeys == {"constructor", "toString"}
Undefined == "undefined"

\* `addresses[network]` on an object literal: the own property, else the
\* property inherited from Object.prototype (a function), else undefined
GetProperty(obj, key) ==
  IF key \in DOMAIN obj THEN obj[key]
  ELSE IF key \in ObjectPrototypeKeys THEN "[Function]"
  ELSE Undefined

\* getTokenAddress throws when `token.addresses[network]` is falsy
getTokenAddress(network, symbol) ==
  LET token == getTokenConfig(symbol)
  IN  IF ~token.ok THEN [ok |-> FALSE, error |-> token.error]
      ELSE IF GetProperty(token.config.addresses, network) = Undefined
        THEN [ok |-> FALSE, error |-> "Token not supported on network"]
        ELSE [ok |-> TRUE, value |-> GetProperty(token.config.addresses, network)]

\* the keys of TOKENS in the order Object.entries yields them
TokenSymbols == <<"usdc", "w0g", "0g", "eth", "credit">>

\* whether the token with this symbol passes getSupportedAssets' filter
HasAddressOn(network, symbol) ==
  GetProperty(TOKENS[symbol].addresses, network) # Undefined

\* getSupportedAssets: the symbols whose `token.addresses[network]` is truthy
getSupportedAssets(network) ==
  SelectSeq(TokenSymbols, LAMBDA symbol : HasAddressOn(network, symbol))

\* isSupported: whether getTokenAddress returns rather than throws
isSupported(network, asset) == getTokenAddress(network, asset).ok

(***************************************************************************)
(* Fee Engine (managed/fees, managed/amounts: spec 4.3).                   *)
(***************************************************************************)
\* mutant of calculateFee: the fee is rounded up
calculateFee_RoundsUp(amount) ==
  LET feeAmount == (amount * FeeBps + 9999) \div 10000
  IN  [feeAmount |-> feeAmount, netAmount |-> amount - feeAmount]

calculateFee(amount) ==
  LET feeAmount == (amount * FeeBps) \div 10000
  IN  [feeAmount |-> feeAmount, netAmount |-> amount - feeAmount]

computeFeeBreakdown(maxAmountRequired) ==
  LET f == calculateFee(maxAmountRequired)
  IN  [amount |-> maxAmountRequired, fee |-> f.feeAmount, net |-> f.netAmount]

(***************************************************************************)
(* Requests.                                                               *)
(***************************************************************************)
ReqIds == 1..MaxReqs
Routes == {"/verify", "/settle"}

\* the value of a field the JSON of the header does not carry (undefined)
Absent == -1

\* The request bodies of the model.  format tells how the header reads
\* ("standard": an object, or base64 of JSON, with from and nonce;
\* "unknown": JSON with none of the recognised shapes; "undecodable": a string
\* that is not base64 of JSON); signed tells whether it carries a signature.
\* maxAmountRequired is a string: integerLiteral tells whether it spells an
\* integer, and maxAmountRequired is then that integer.
Body(network, asset, nonce, value) ==
  [paymentHeader |->
     [format |-> "standard", from |-> "payer", to |-> "merchant", value |-> value,
      validAfter |-> Absent, validBefore |-> Absent, nonce |-> nonce, signed |-> TRUE],
   paymentRequirements |->
     [network |-> network, asset |-> asset, payTo |-> "merchant",
      maxAmountRequired |-> Amount, integerLiteral |-> TRUE, resource |-> "/paid"],
   \* the optional agentId, and whether the body passes VerifyRequestSchema /
   \* SettleRequestSchema
   agentId |-> Undefined, schemaValid |-> TRUE]

Bodies ==
  << Body("base-sepolia", "usdc", "n1", Amount),
     Body("0g-mainnet", "w0g", "n1", Amount),
     Body("base-sepolia", "usdc", "n2", Amount + Tip),
     Body("solana", "usdc", "n1", Amount) >>

\* the bodies of the clients that name an agent, and of one that sends a body
\* the schema rejects
AgentBodies ==
  << [Body("base-sepolia", "usdc", "n1", Amount) EXCEPT !.agentId = "agent-7"],
     [Body("base-sepolia", "usdc", "n2", Amount) EXCEPT !.schemaValid = FALSE] >>

\* the bodies by the number the requests refer to them with
AllBodies == Bodies \o AgentBodies

\* a request without an Idempotency-Key header
NoKey == "none"

\* The requests of the model, as <<route, body, Idempotency-Key>>: every body
\* on /settle, the first on /verify, none with an Idempotency-Key.
Kinds ==
  {<<"/settle", b, NoKey>> : b \in 1..Len(Bodies)} \cup {<<"/verify", 1, NoKey>>}

\* the requests of clients that send an Idempotency-Key header: one key with
\* two different bodies, and one body under two keys
KeyedKinds == {<<"/settle", 1, "k1">>, <<"/settle", 2, "k1">>, <<"/settle", 1, "k2">>}

\* the routes the server answers without the rate limiter: GET /health,
\* GET /supported and GET /api/info
GetRoutes == {"/health", "/supported", "/api/info"}

\* the requests of this client: POSTs that settle with either strategy or
\* verify, and the three GET routes
RateKinds ==
  {<<"/settle", 1, NoKey>>, <<"/settle", 2, NoKey>>, <<"/verify", 1, NoKey>>}
    \cup {<<g, 0, NoKey>> : g \in GetRoutes}

\* the requests of the clients that name an agent: a settlement with agentId
\* and one without (by the relayer)
AgentKinds == {<<"/settle", Len(Bodies) + 1, NoKey>>, <<"/settle", 2, NoKey>>}

\* the requests of the clients whose requests fail: the malformed body on both
\* routes, and a well-formed settlement (by the relayer)
FaultyKinds ==
  {<<"/settle", Len(Bodies) + 2, NoKey>>, <<"/verify", Len(Bodies) + 2, NoKey>>,
   <<"/settle", 2, NoKey>>}

\* the requests the clients of the run send (traffic names the clients)
Sent ==
  CASE traffic = "plain"   -> Kinds
    [] traffic = "keyed"   -> KeyedKinds
    [] traffic = "limited" -> RateKinds
    [] traffic = "agents"  -> AgentKinds
    [] traffic = "faulty"  -> FaultyKinds
    [] OTHER               -> {}

\* those to the POST routes
Posts == {k \in Sent : k[1] \in Routes}

NoVerification == [done |-> FALSE]
NoHash == 0

NewReq ==
  [pc |-> "new", route |-> "none", body |-> 0, idempotencyKey |-> NoKey,
   hitAtEntry |-> FALSE, inFlight |-> {},
   usedAtEntry |-> FALSE,
   stableTimestamp |-> -1, verification |-> NoVerification, hashes |-> <<>>,
   code |-> 0, response |-> [kind |-> "none"], served |-> "none", log |-> <<>>]

BodyOf(rq) == AllBodies[rq.body]
Logged(rq, e) == \E i \in 1..Len(rq.log) : rq.log[i] = e

(***************************************************************************)
(* Idempotency middleware (middleware/idempotency: spec 4.7).              *)
(***************************************************************************)
NoEntry == [present |-> FALSE]

\* the fingerprint of a request: its route and the identifying payment fields
Fingerprint(route, body) ==
  <<route, body.paymentHeader.nonce, body.paymentRequirements.resource,
    body.paymentRequirements.payTo, body.paymentRequirements.maxAmountRequired,
    body.paymentRequirements.network>>

\* mutant of CacheKeyOf: the Idempotency-Key header is not looked at
CacheKeyOf_BodyOnly(route, body, key) == Fingerprint(route, body)

\* the key of a request's cache entry: the Idempotency-Key header when the
\* client sent one, the derived fingerprint otherwise
CacheKeyOf(route, body, key) ==
  IF key # NoKey THEN <<"Idempotency-Key", key>> ELSE Fingerprint(route, body)

\* the keys the cache can hold entries for: the fingerprints and the
\* Idempotency-Keys of the requests clients send
CacheKeys ==
  {Fingerprint(k[1], AllBodies[k[2]]) : k \in Posts}
    \cup {<<"Idempotency-Key", k[3]>> : k \in {x \in Posts : x[3] # NoKey}}

\* an entry is served while it is younger than the TTL
Live(entry, clock) == entry.present /\ clock - entry.created_at < TTL

\* tryServeCachedResponse: whether the lookup finds a live entry
tryServeCachedResponse(fp, clock) == Live(cache[fp], clock)

\* storeResponseForIdempotency: the cache after the response is stored
storeResponseForIdempotency(fp, response, clock) ==
  [cache EXCEPT ![fp] = [present |-> TRUE, body |-> response, created_at |-> clock]]

\* mutant of ServedFromCache: the handler goes on after a cache hit
ServedFromCache_Never(hit) == FALSE

\* `if (await tryServeCachedResponse(request, reply)) return;`
ServedFromCache(hit) == hit

(***************************************************************************)
(* Rate limiter (middleware/rateLimit: spec 4.7), a fixed-window counter.  *)
(* One client sends the requests of the model.                             *)
(***************************************************************************)
\* the window the clock is in
WindowOf(clock) == clock - (clock % config.rateLimit.window)

\* the counter as the request finds it: reset when a new window has begun
CurrentWindow(clock) ==
  IF limiter.windowStart = WindowOf(clock) THEN limiter
  ELSE [windowStart |-> WindowOf(clock), count |-> 0]

\* mutant of Exceeded: the limiter lets every request through
Exceeded_Never(clock) == FALSE

\* rateLimitMiddleware: the request exceeds the limit of its window
Exceeded(clock) == CurrentWindow(clock).count >= config.rateLimit.max

\* the counter after the request has been counted
Counted(clock) == [CurrentWindow(clock) EXCEPT !.count = @ + 1]

(***************************************************************************)
(* Verifier (verifyPaymentManaged).                                        *)
(***************************************************************************)
\* What the body of the try block yields: a returned result, or (thrown) an
\* error that leaves the block with its message.
Invalid(reason) ==
  [done |-> TRUE, thrown |-> FALSE, isValid |-> FALSE, invalidReason |-> reason]
Valid ==
  [done |-> TRUE, thrown |-> FALSE, isValid |-> TRUE, invalidReason |-> "null"]
Thrown(message) ==
  [done |-> TRUE, thrown |-> TRUE, isValid |-> FALSE, invalidReason |-> message]

\* mutant of Caught: the function has no catch block
Caught_Rethrows(res) == res

\* `catch (error) { return { isValid: false, invalidReason: error.message } }`
Caught(res) ==
  IF res.done /\ res.thrown THEN Invalid(res.invalidReason) ELSE res

\* the result of an awaited contract read
Read(value) == [ok |-> TRUE, value |-> value]
ReadFailed == [ok |-> FALSE]

\* parsePaymentHeader: JSON.parse of the decoded string, then the format test
parsePaymentHeader(header) ==
  CASE header.format = "undecodable" -> [ok |-> FALSE, error |-> "Unexpected token in JSON"]
    [] header.format = "unknown" -> [ok |-> FALSE, error |-> "Invalid payment header format"]
    [] OTHER -> [ok |-> TRUE, value |-> header]

\* BigInt(maxAmountRequired) throws a SyntaxError unless the string spells an
\* integer
BigInt(pr) ==
  IF pr.integerLiteral THEN [ok |-> TRUE, value |-> pr.maxAmountRequired]
  ELSE [ok |-> FALSE, error |-> "Cannot convert to a BigInt"]

\* `if (auth.validAfter)`, `if (auth.validBefore)`: undefined and 0 are falsy
Truthy(v) == v # Absent /\ v # 0

\* `if (auth.validAfter) { ... if (now < validAfter)`
NotYetValid(auth, clock) == Truthy(auth.validAfter) /\ clock < auth.validAfter

\* `if (auth.validBefore) { ... if (now > validBefore)`
Expired(auth, clock) == Truthy(auth.validBefore) /\ clock > auth.validBefore

\* The synchronous part of verifyPaymentManaged, up to the balanceOf read, in
\* the order of its statements.  NoVerification means the checks passed so far.
VerifyLocal(body, clock) ==
  LET pr     == body.paymentRequirements
      chain  == getChainConfig(pr.network)
      addr   == getTokenAddress(pr.network, pr.asset)
      auth   == parsePaymentHeader(body.paymentHeader)
      amount == BigInt(pr)
  IN  IF ~chain.ok THEN Thrown(chain.error)
      ELSE IF ~addr.ok THEN Thrown(addr.error)
      ELSE IF ~auth.ok THEN Thrown(auth.error)
      ELSE IF ~amount.ok THEN Thrown(amount.error)
      ELSE IF NotYetValid(auth.value, clock)
        THEN Invalid("Authorization not yet valid")
      ELSE IF Expired(auth.value, clock)
        THEN Invalid("Authorization expired")
      ELSE NoVerification

\* mutant of VerifyBalance: a balance equal to the amount is rejected
VerifyBalance_Strict(body, bal) ==
  IF ~bal.ok THEN Thrown("RPC error")
  ELSE IF bal.value <= body.paymentRequirements.maxAmountRequired
    THEN Invalid("Insufficient balance")
    ELSE NoVerification

\* step 4: the balanceOf read returned or threw
VerifyBalance(body, bal) ==
  IF ~bal.ok THEN Thrown("RPC error")
  ELSE IF bal.value < body.paymentRequirements.maxAmountRequired
    THEN Invalid("Insufficient balance")
    ELSE NoVerification

\* mutant of VerifyAuthorization: an allowance equal to the amount is rejected
VerifyAuthorization_StrictAllowance(body, used, allowed, keyConfigured) ==
  IF getTokenConfig(body.paymentRequirements.asset).config.supportsEIP3009
    THEN IF ~used.ok THEN Thrown("RPC error")
         ELSE IF used.value THEN Invalid("Authorization already used") ELSE Valid
    ELSE IF ~keyConfigured
           THEN Thrown("FACILITATOR_PRIVATE_KEY not configured for relayer check")
         ELSE IF ~allowed.ok THEN Thrown("RPC error")
         ELSE IF allowed.value <= body.paymentRequirements.maxAmountRequired
           THEN Invalid("Insufficient allowance") ELSE Valid

\* mutant of VerifyAuthorization: the nonce's state is not looked at
VerifyAuthorization_IgnoresNonce(body, used, allowed, keyConfigured) ==
  IF getTokenConfig(body.paymentRequirements.asset).config.supportsEIP3009
    THEN IF ~used.ok THEN Thrown("RPC error") ELSE Valid
    ELSE IF ~keyConfigured
           THEN Thrown("FACILITATOR_PRIVATE_KEY not configured for relayer check")
         ELSE IF ~allowed.ok THEN Thrown("RPC error")
         ELSE IF allowed.value < body.paymentRequirements.maxAmountRequired
           THEN Invalid("Insufficient allowance") ELSE Valid

\* step 5: authorizationState (EIP-3009), or the facilitator key and allowance
\* (relayer)
VerifyAuthorization(body, used, allowed, keyConfigured) ==
  IF getTokenConfig(body.paymentRequirements.asset).config.supportsEIP3009
    THEN IF ~used.ok THEN Thrown("RPC error")
         ELSE IF used.value THEN Invalid("Authorization already used") ELSE Valid
    ELSE IF ~keyConfigured
           THEN Thrown("FACILITATOR_PRIVATE_KEY not configured for relayer check")
         ELSE IF ~allowed.ok THEN Thrown("RPC error")
         ELSE IF allowed.value < body.paymentRequirements.maxAmountRequired
           THEN Invalid("Insufficient allowance") ELSE Valid

\* verifyPaymentManaged as a function of the request and of what its reads of
\* the clock, the chain and the environment return
verifyPaymentManaged(request, env) ==
  LET pre == VerifyLocal(request, env.now)
      bal == VerifyBalance(request, env.balanceOf)
  IN  Caught(IF pre.done THEN pre
             ELSE IF bal.done THEN bal
             ELSE VerifyAuthorization(request, env.authorizationState, env.allowance,
                                      env.facilitatorKey))

\* the contract read of step 5: authorizationState for an EIP-3009 token; for
\* the others allowance, which needs the facilitator's address and is not
\* reached when the key is missing
AuthorizationReads(body, keyConfigured) ==
  IF getTokenConfig(body.paymentRequirements.asset).config.supportsEIP3009
    THEN <<"authorizationState">>
    ELSE IF ~keyConfigured THEN <<>> ELSE <<"allowance">>

\* the contract reads verifyPaymentManaged issues, in order
ChainReads(request, env) ==
  LET pre == VerifyLocal(request, env.now)
      bal == VerifyBalance(request, env.balanceOf)
  IN  IF pre.done THEN <<>>
      ELSE IF bal.done THEN <<"balanceOf">>
      ELSE <<"balanceOf">> \o AuthorizationReads(request, env.facilitatorKey)

(***************************************************************************)
(* Settler (settlePaymentManaged, settleWithEIP3009, settleWithRelayer).   *)
(***************************************************************************)
\* mutant of signedAmount: the merchant transfer carries the net amount
signedAmount_Net(auth, netAmount) == netAmount

\* `const signedAmount = BigInt(auth.value)`
signedAmount(auth, netAmount) == auth.value

UsesEIP3009(body) == getTokenConfig(body.paymentRequirements.asset).config.supportsEIP3009

\* the merchant transaction of request r
MerchantTx(r, body) ==
  LET fee == calculateFee(body.paymentRequirements.maxAmountRequired)
  IN  IF UsesEIP3009(body)
        THEN [fn |-> "transferWithAuthorization", req |-> r, role |-> "merchant",
              token |-> body.paymentRequirements.asset,
              network |-> body.paymentRequirements.network,
              from |-> body.paymentHeader.from,
              to |-> body.paymentRequirements.payTo,
              value |-> signedAmount(body.paymentHeader, fee.netAmount),
              nonce |-> body.paymentHeader.nonce, receipt |-> "none"]
        ELSE [fn |-> "transferFrom", req |-> r, role |-> "merchant",
              token |-> body.paymentRequirements.asset,
              network |-> body.paymentRequirements.network,
              from |-> body.paymentHeader.from,
              to |-> body.paymentRequirements.payTo,
              value |-> fee.netAmount,
              nonce |-> "none", receipt |-> "none"]

\* the fee transaction of request r (relayer strategy)
FeeTx(r, body) ==
  [fn |-> "transferFrom", req |-> r, role |-> "fee",
   token |-> body.paymentRequirements.asset,
   network |-> body.paymentRequirements.network,
   from |-> body.paymentHeader.from, to |-> "treasury",
   value |-> calculateFee(body.paymentRequirements.maxAmountRequired).feeAmount,
   nonce |-> "none", receipt |-> "none"]

\* mutant of SettlementOutcome: the relayer reports partial_settlement only
\* when both transactions failed
SettlementOutcome_BothFailed(body, hashes) ==
  IF UsesEIP3009(body)
    THEN [txHash |-> hashes[1], txHashFee |-> NoHash,
          status |-> IF txs[hashes[1]].receipt = "success" THEN "confirmed" ELSE "failed"]
    ELSE [txHash |-> hashes[1], txHashFee |-> hashes[2],
          status |-> IF txs[hashes[1]].receipt # "success"
                          /\ txs[hashes[2]].receipt # "success"
                       THEN "partial_settlement" ELSE "confirmed"]

\* mutant of SettlementOutcome: an EIP-3009 transfer that did not succeed is
\* reported as still pending
SettlementOutcome_PendingOnRevert(body, hashes) ==
  IF UsesEIP3009(body)
    THEN [txHash |-> hashes[1], txHashFee |-> NoHash,
          status |-> IF txs[hashes[1]].receipt = "success" THEN "confirmed" ELSE "pending"]
    ELSE [txHash |-> hashes[1], txHashFee |-> hashes[2],
          status |-> IF txs[hashes[1]].receipt # "success"
                          \/ txs[hashes[2]].receipt # "success"
                       THEN "partial_settlement" ELSE "confirmed"]

\* what the strategy returns once the receipts are in
SettlementOutcome(body, hashes) ==
  IF UsesEIP3009(body)
    THEN [txHash |-> hashes[1], txHashFee |-> NoHash,
          status |-> IF txs[hashes[1]].receipt = "success" THEN "confirmed" ELSE "failed"]
    ELSE [txHash |-> hashes[1], txHashFee |-> hashes[2],
          status |-> IF txs[hashes[1]].receipt # "success"
                          \/ txs[hashes[2]].receipt # "success"
                       THEN "partial_settlement" ELSE "confirmed"]

(***************************************************************************)
(* Token contracts.                                                        *)
(***************************************************************************)
\* whether the call of tx succeeds in the current state of its contract
Executes(tx) ==
  IF tx.fn = "transferWithAuthorization"
    THEN LET auth == BodyOf(reqs[tx.req]).paymentHeader
         IN  /\ tx.nonce \notin authUsed
             /\ balance[tx.token] >= tx.value
             \* the signature covers from, to, value and nonce
             /\ auth.signed /\ tx.from = auth.from /\ tx.to = auth.to
             /\ tx.value = auth.value /\ tx.nonce = auth.nonce
    ELSE /\ allowance[tx.token] >= tx.value
         /\ balance[tx.token] >= tx.value

\* the facilitator wallet's transactions on one network are included in the
\* order of their account nonce
Minable(h) ==
  /\ txs[h].receipt = "none"
  /\ \A g \in 1..(h - 1) : txs[g].network = txs[h].network => txs[g].receipt # "none"

MineTx(h) ==
  LET tx == txs[h]
  IN  /\ Minable(h)
      /\ IF Executes(tx)
           THEN /\ txs' = [txs EXCEPT ![h].receipt = "success"]
                /\ balance' = [balance EXCEPT ![tx.token] = @ - tx.value]
                /\ IF tx.fn = "transferWithAuthorization"
                     THEN /\ authUsed' = authUsed \cup {tx.nonce}
                          /\ UNCHANGED allowance
                     ELSE /\ allowance' = [allowance EXCEPT ![tx.token] = @ - tx.value]
                          /\ UNCHANGED authUsed
           ELSE /\ txs' = [txs EXCEPT ![h].receipt = "reverted"]
                /\ UNCHANGED <<balance, allowance, authUsed>>
      /\ UNCHANGED <<reqs, cache, now, rpcFlaky, limiter, confVars, auxVars>>

(***************************************************************************)
(* Request handlers (server.ts: POST /verify, POST /settle, managed mode). *)
(***************************************************************************)
VerifyResponse(r, rq, verification) ==
  LET fb == computeFeeBreakdown(BodyOf(rq).paymentRequirements.maxAmountRequired)
  IN  [kind |-> "verify", ok |-> verification.isValid,
       error |-> verification.invalidReason, txHash |-> NoHash,
       txHashFee |-> NoHash, status |-> "undefined",
       timestamp |-> rq.stableTimestamp, reportId |-> <<rq.stableTimestamp, r>>,
       amount |-> fb.amount, fee |-> fb.fee, net |-> fb.net]

\* the response of /settle when verification failed (server.ts:409-420)
SettleFailure(rq, verification) ==
  LET fb == computeFeeBreakdown(BodyOf(rq).paymentRequirements.maxAmountRequired)
  IN  [kind |-> "settle", ok |-> FALSE, error |-> verification.invalidReason,
       txHash |-> NoHash, txHashFee |-> NoHash, status |-> "undefined",
       timestamp |-> rq.stableTimestamp, reportId |-> <<>>,
       amount |-> fb.amount, fee |-> fb.fee, net |-> fb.net]

\* mutant of Success: everything but a failed settlement counts as success
Success_NotFailed(status) == status # "failed"

\* `success: settlement.status === 'confirmed' || settlement.status === 'pending'`
Success(status) == status \in {"confirmed", "pending"}

\* the response of /settle after the Settler returned (server.ts:454-469)
SettleResponse(rq, settlement) ==
  LET fb == computeFeeBreakdown(BodyOf(rq).paymentRequirements.maxAmountRequired)
  IN  [kind |-> "settle", ok |-> Success(settlement.status),
       error |-> "null", txHash |-> settlement.txHash,
       txHashFee |-> settlement.txHashFee, status |-> settlement.status,
       timestamp |-> rq.stableTimestamp, reportId |-> <<>>,
       amount |-> fb.amount, fee |-> fb.fee, net |-> fb.net]

\* simulateVerify: the mock response of the decentralized mode
simulateVerify(r, rq) ==
  [kind |-> "verify", ok |-> TRUE, error |-> "null", txHash |-> NoHash,
   txHashFee |-> NoHash, status |-> "undefined", reportId |-> <<"rep", rq.stableTimestamp>>]

\* simulateSettle: the mock response of the decentralized mode; its txHash is
\* made up (here: the negated request id) and it has no status
simulateSettle(r, rq) ==
  [kind |-> "settle", ok |-> TRUE, error |-> "null", txHash |-> 0 - r,
   txHashFee |-> NoHash, status |-> "undefined", reportId |-> <<>>]

\* mutant of WithBreakdown: the CRE response is passed on as it is
WithBreakdown_BaseOnly(baseResponse, rq) ==
  [kind |-> baseResponse.kind, ok |-> baseResponse.ok, error |-> baseResponse.error,
   txHash |-> baseResponse.txHash, txHashFee |-> baseResponse.txHashFee,
   status |-> baseResponse.status, reportId |-> baseResponse.reportId,
   timestamp |-> rq.stableTimestamp]

\* `{ ...baseResponse, timestamp: stableTimestamp, amount, fee, net }`
WithBreakdown(baseResponse, rq) ==
  LET fb == computeFeeBreakdown(BodyOf(rq).paymentRequirements.maxAmountRequired)
  IN  [kind |-> baseResponse.kind, ok |-> baseResponse.ok, error |-> baseResponse.error,
       txHash |-> baseResponse.txHash, txHashFee |-> baseResponse.txHashFee,
       status |-> baseResponse.status, reportId |-> baseResponse.reportId,
       timestamp |-> rq.stableTimestamp,
       amount |-> fb.amount, fee |-> fb.fee, net |-> fb.net]

\* `code: "VERIFICATION_ERROR"` in the catch block of /verify,
\* `code: "SETTLEMENT_ERROR"` in that of /settle
ErrorCode(route) == IF route = "/verify" THEN "VERIFICATION_ERROR" ELSE "SETTLEMENT_ERROR"

\* mutant of Fail: the error response is stored and sent like any other
Fail_Stores(rq, message) ==
  [rq EXCEPT !.pc = "store",
             !.response = [kind |-> "error", error |-> message,
                           code |-> ErrorCode(rq.route)]]

\* the handler's catch block for an Error: reply 400, nothing is stored
Fail(rq, message) ==
  [rq EXCEPT !.pc = "done", !.code = 400, !.served = "handler",
             !.response = [kind |-> "error", error |-> message,
                           code |-> ErrorCode(rq.route)],
             !.log = Append(@, "replied")]

\* the catch block for a thrown value that is no Error: reply 500
InternalError(rq) ==
  [rq EXCEPT !.pc = "done", !.code = 500, !.served = "handler",
             !.response = [kind |-> "error", error |-> "Internal server error",
                           code |-> "INTERNAL_ERROR"],
             !.log = Append(@, "replied")]

\* mutant of Catch: every thrown value is answered like an Error
Catch_Always400(rq, thrown) == Fail(rq, thrown.message)

\* `catch (error) { if (error instanceof Error) {...400...} ...500... }`
Catch(rq, thrown) ==
  IF thrown.isError THEN Fail(rq, thrown.message) ELSE InternalError(rq)

\* what the Settler does before its first await: settlePaymentManaged's
\* getTokenConfig and the strategy's getWalletClient, getTokenAddress and
\* getConfirmations throw outside the try block, splitSignature inside it
SettlerSetup(body) ==
  LET pr    == body.paymentRequirements
      token == getTokenConfig(pr.asset)
      chain == getChainConfig(pr.network)
      addr  == getTokenAddress(pr.network, pr.asset)
  IN  IF ~token.ok THEN [ok |-> FALSE, error |-> token.error]
      ELSE IF ~chain.ok THEN [ok |-> FALSE, error |-> chain.error]
      ELSE IF ~addr.ok THEN [ok |-> FALSE, error |-> addr.error]
      ELSE IF token.config.supportsEIP3009 /\ ~body.paymentHeader.signed
        THEN [ok |-> FALSE, error |-> "EIP-3009 settlement failed: Missing signature"]
      ELSE [ok |-> TRUE]

\* mutant of SettlerInvoked: the handler settles whatever the Verifier said
SettlerInvoked_Always(verification) == TRUE

\* `if (!verification.isValid) {...} else {... settlePaymentManaged ...}`
SettlerInvoked(verification) == verification.isValid

\* The handler from the Verifier's result up to its next await.
AfterVerification(r, rq, verification) ==
  LET rv == [rq EXCEPT !.verification = verification, !.log = Append(@, "verified")]
  IN  IF rq.route = "/verify"
        THEN [rv EXCEPT !.pc = "store", !.response = VerifyResponse(r, rv, verification)]
      ELSE IF ~SettlerInvoked(verification)
        THEN [rv EXCEPT !.pc = "store", !.response = SettleFailure(rv, verification)]
      ELSE IF ~SettlerSetup(BodyOf(rq)).ok
        THEN Fail(rv, SettlerSetup(BodyOf(rq)).error)
      ELSE [rv EXCEPT !.pc = "write1"]

\* The decentralized branch of both handlers: the simulated CRE response with
\* the breakdown added, or forwardVerifyToCRE / forwardSettleToCRE, which throw
\* (the remote mode is not implemented).
Decentralized(r, rq) ==
  IF config.creMode = "simulate"
    THEN [rq EXCEPT !.pc = "store",
                    !.response = WithBreakdown(IF rq.route = "/verify"
                                                 THEN simulateVerify(r, rq)
                                                 ELSE simulateSettle(r, rq), rq)]
    ELSE Fail(rq, "Remote CRE mode not yet implemented")

\* the authorization of the request is consumed on the token contract it names
\* (authUsed is the state of the EIP-3009 token on base-sepolia)
Consumed(body) ==
  /\ body.paymentRequirements.network = "base-sepolia"
  /\ getTokenAddress(body.paymentRequirements.network, body.paymentRequirements.asset).ok
  /\ UsesEIP3009(body)
  /\ body.paymentHeader.nonce \in authUsed

\* the requests with fingerprint fp that are being handled
InFlight(fp) ==
  {q \in ReqIds : /\ reqs[q].pc \notin {"new", "done"}
                  /\ CacheKeyOf(reqs[q].route, BodyOf(reqs[q]),
                                reqs[q].idempotencyKey) = fp}

\* The wall clock is read when a request arrives (the cache lookup and
\* Date.now() of server.ts:390) and when a response is stored: each read finds
\* that some time has passed since the previous one.  No modelled request
\* carries a validity window, so the clock starts with the first request.
Elapsed(r) == IF r = 1 THEN {0} ELSE 0..(MaxTime - now)

\* A request arrives: the idempotency lookup, and on a miss the handler up to
\* the Verifier's balanceOf read.  Requests take the ids in order of arrival.
Receive(r) ==
  /\ reqs[r].pc = "new"
  /\ \A q \in ReqIds : q < r => reqs[q].pc # "new"
  /\ \E k \in Sent, d \in Elapsed(r) :
       LET route == k[1]
           b   == k[2]
           clock == now + d
           fp  == CacheKeyOf(route, AllBodies[b], k[3])
           hit == tryServeCachedResponse(fp, clock)
           rq  == [NewReq EXCEPT !.route = route, !.body = b,
                                 !.idempotencyKey = k[3], !.hitAtEntry = hit,
                                 !.inFlight = InFlight(fp),
                                 !.usedAtEntry = Consumed(AllBodies[b])]
           rs  == [rq EXCEPT !.stableTimestamp = clock]
           pre == Caught(VerifyLocal(AllBodies[b], clock))
       IN  /\ route \in Routes
           /\ ~Exceeded(clock)
           /\ limiter' = Counted(clock)
           /\ now' = clock
           /\ reqs' = [reqs EXCEPT ![r] =
                IF ServedFromCache(hit)
                  THEN [rq EXCEPT !.pc = "done", !.code = 200, !.served = "cache",
                                  !.response = cache[fp].body,
                                  !.log = Append(@, "replied")]
                ELSE IF ~AllBodies[b].schemaValid
                  THEN Catch(rq, [isError |-> TRUE, message |-> "Invalid request body"])
                ELSE IF config.mode # "managed" THEN Decentralized(r, rs)
                ELSE IF pre.done THEN AfterVerification(r, rs, pre)
                ELSE [rs EXCEPT !.pc = "balance"]]
  /\ UNCHANGED <<cache, balance, allowance, authUsed, txs, rpcFlaky, confVars, auxVars>>

\* the await of readContract balanceOf
ReadBalance(r) ==
  LET rq == reqs[r]
  IN  /\ rq.pc = "balance"
      /\ \E o \in Outcomes :
           LET res == Caught(VerifyBalance(BodyOf(rq),
                        IF o = "throw" THEN ReadFailed
                        ELSE Read(balance[BodyOf(rq).paymentRequirements.asset])))
           IN  reqs' = [reqs EXCEPT ![r] =
                 IF res.done THEN AfterVerification(r, rq, res)
                 ELSE [rq EXCEPT !.pc = "authorization"]]
      /\ UNCHANGED <<cache, balance, allowance, authUsed, txs, now, rpcFlaky, limiter, confVars, auxVars>>

\* the await of readContract authorizationState or allowance
ReadAuthorization(r) ==
  LET rq    == reqs[r]
      asset == BodyOf(rq).paymentRequirements.asset
  IN  /\ rq.pc = "authorization"
      /\ \E o \in Outcomes :
           LET res == Caught(VerifyAuthorization(BodyOf(rq),
                        IF o = "throw" THEN ReadFailed
                        ELSE Read(BodyOf(rq).paymentHeader.nonce \in authUsed),
                        IF o = "throw" THEN ReadFailed
                        ELSE Read(IF asset \in DOMAIN allowance THEN allowance[asset] ELSE 0),
                        config.facilitatorKey))
           IN  reqs' = [reqs EXCEPT ![r] = AfterVerification(r, rq, res)]
      /\ UNCHANGED <<cache, balance, allowance, authUsed, txs, now, rpcFlaky, limiter, confVars, auxVars>>

\* mutant of AfterBroadcast: the strategy returns 'pending' without waiting
AfterBroadcast_NoWait(rq, hashes) ==
  [rq EXCEPT !.hashes = hashes, !.pc = "store",
             !.log = @ \o <<"write">>,
             !.response = SettleResponse(rq,
               [txHash |-> hashes[1],
                txHashFee |-> IF Len(hashes) > 1 THEN hashes[2] ELSE NoHash,
                status |-> "pending"])]

\* the request after its last writeContract returned: the strategy awaits the
\* receipts
AfterBroadcast(rq, hashes) ==
  [rq EXCEPT !.hashes = hashes, !.pc = "wait", !.log = @ \o <<"write", "wait">>]

\* the await of writeContract for the merchant transfer
BroadcastMerchant(r) ==
  LET rq == reqs[r]
      h  == Len(txs) + 1
  IN  /\ rq.pc = "write1"
      /\ \E o \in Outcomes :
           IF o = "throw"
             THEN /\ reqs' = [reqs EXCEPT ![r] = Fail(rq, "settlement failed")]
                  /\ UNCHANGED txs
             ELSE /\ txs' = Append(txs, MerchantTx(r, BodyOf(rq)))
                  /\ reqs' = [reqs EXCEPT ![r] =
                       IF UsesEIP3009(BodyOf(rq))
                         THEN AfterBroadcast(rq, <<h>>)
                         ELSE [rq EXCEPT !.hashes = <<h>>, !.pc = "write2",
                                         !.log = Append(@, "write")]]
      /\ UNCHANGED <<cache, balance, allowance, authUsed, now, rpcFlaky, limiter, confVars, auxVars>>

\* the await of writeContract for the fee transfer (relayer strategy)
BroadcastFee(r) ==
  LET rq == reqs[r]
      h  == Len(txs) + 1
  IN  /\ rq.pc = "write2"
      /\ \E o \in Outcomes :
           IF o = "throw"
             THEN /\ reqs' = [reqs EXCEPT ![r] = Fail(rq, "settlement failed")]
                  /\ UNCHANGED txs
             ELSE /\ txs' = Append(txs, FeeTx(r, BodyOf(rq)))
                  /\ reqs' = [reqs EXCEPT ![r] = AfterBroadcast(rq, Append(rq.hashes, h))]
      /\ UNCHANGED <<cache, balance, allowance, authUsed, now, rpcFlaky, limiter, confVars, auxVars>>

\* `if (agentId && config.chaoschainEnabled)`
AnchoringAttempted(body) == body.agentId # Undefined /\ config.chaoschainEnabled

\* the await of waitForTransactionReceipt (both receipts for the relayer): it
\* returns when the transactions are included, or throws
AwaitReceipts(r) ==
  LET rq == reqs[r]
  IN  /\ rq.pc = "wait"
      /\ \E o \in Outcomes :
           IF o = "throw"
             THEN reqs' = [reqs EXCEPT ![r] = Fail(rq, "settlement failed")]
             ELSE /\ \A i \in 1..Len(rq.hashes) : txs[rq.hashes[i]].receipt # "none"
                  /\ reqs' = [reqs EXCEPT ![r] =
                       [rq EXCEPT !.pc = IF AnchoringAttempted(BodyOf(rq))
                                           THEN "anchor" ELSE "store",
                                  !.log = Append(@, "outcome"),
                                  !.response = SettleResponse(rq,
                                    SettlementOutcome(BodyOf(rq), rq.hashes))]]
      /\ UNCHANGED <<cache, balance, allowance, authUsed, txs, now, rpcFlaky, limiter, confVars, auxVars>>

\* `await storeResponseForIdempotency(request, response)` and the reply
StoreAndReply(r) ==
  LET rq == reqs[r]
  IN  /\ rq.pc = "store"
      /\ \E d \in 0..(MaxTime - now) :
           /\ now' = now + d
           /\ cache' = storeResponseForIdempotency(
                         CacheKeyOf(rq.route, BodyOf(rq), rq.idempotencyKey),
                         rq.response, now + d)
      /\ reqs' = [reqs EXCEPT ![r] =
           [rq EXCEPT !.pc = "done", !.code = 200, !.served = "handler",
                      !.log = @ \o <<"stored", "replied">>]]
      /\ UNCHANGED <<balance, allowance, authUsed, txs, rpcFlaky, limiter, confVars, auxVars>>

\* linkAgentIdentity (chaoschain/identity: spec 4.5): the identity with its
\* evidence, or nothing when the anchoring failed (the failure is logged)
linkAgentIdentity(r) ==
  {[linked |-> TRUE, evidenceHash |-> <<"evidence", r>>, proofOfAgency |-> <<"proof", r>>],
   [linked |-> FALSE]}

\* mutant of AfterAnchoring: a settlement without identity is an error
AfterAnchoring_Fatal(rq, identity) ==
  IF identity.linked
    THEN [rq EXCEPT !.pc = "store", !.log = Append(@, "anchored"),
                    !.response = @ @@ [evidenceHash |-> identity.evidenceHash,
                                       proofOfAgency |-> identity.proofOfAgency]]
    ELSE Fail(rq, "Agent identity anchoring failed")

\* `if (identity) { evidenceHash = ...; proofOfAgency = ... }`, then the
\* response with the two fields, undefined when there is no identity
AfterAnchoring(rq, identity) ==
  IF identity.linked
    THEN [rq EXCEPT !.pc = "store", !.log = Append(@, "anchored"),
                    !.response = @ @@ [evidenceHash |-> identity.evidenceHash,
                                       proofOfAgency |-> identity.proofOfAgency]]
    ELSE [rq EXCEPT !.pc = "store", !.log = Append(@, "anchored")]

\* `const identity = await linkAgentIdentity({...})`
LinkAgentIdentity(r) ==
  LET rq == reqs[r]
  IN  /\ rq.pc = "anchor"
      /\ \E identity \in linkAgentIdentity(r) :
           reqs' = [reqs EXCEPT ![r] = AfterAnchoring(rq, identity)]
      /\ UNCHANGED <<cache, balance, allowance, authUsed, txs, now, rpcFlaky, limiter, confVars, auxVars>>

\* what a failing persistence call of the idempotency store throws: an Error,
\* or a value that is none
StoreFailures ==
  {[isError |-> TRUE, message |-> "store unavailable"],
   [isError |-> FALSE, message |-> "store unavailable"]}

\* `await storeResponseForIdempotency(request, response)` fails: nothing is
\* stored and the catch block replies
StoreFails(r) ==
  LET rq == reqs[r]
  IN  /\ rq.pc = "store"
      /\ \E thrown \in StoreFailures :
           reqs' = [reqs EXCEPT ![r] =
             Catch([rq EXCEPT !.log = Append(@, IF thrown.isError THEN "threw Error"
                                                ELSE "threw value")], thrown)]
      /\ UNCHANGED <<cache, balance, allowance, authUsed, txs, now, rpcFlaky, limiter, confVars, auxVars>>

\* A POST request arrives in a window whose limit is used up: the pre-handler
\* replies 429 and the route handler does not run.
RateLimited(r) ==
  /\ reqs[r].pc = "new"
  /\ \A q \in ReqIds : q < r => reqs[q].pc # "new"
  /\ \E k \in Sent, d \in Elapsed(r) :
       /\ k[1] \in Routes
       /\ Exceeded(now + d)
       /\ limiter' = CurrentWindow(now + d)
       /\ now' = now + d
       /\ reqs' = [reqs EXCEPT ![r] =
            [NewReq EXCEPT !.route = k[1], !.body = k[2], !.idempotencyKey = k[3],
                           !.pc = "done", !.code = 429, !.served = "limiter",
                           !.response = [kind |-> "error", error |-> "Rate limit exceeded"],
                           !.log = <<"replied">>]]
  /\ UNCHANGED <<cache, balance, allowance, authUsed, txs, rpcFlaky, confVars, auxVars>>

\* A GET request arrives: its handler replies at once; the route has no
\* pre-handler.
ServeGet(r) ==
  /\ reqs[r].pc = "new"
  /\ \A q \in ReqIds : q < r => reqs[q].pc # "new"
  /\ \E k \in Sent, d \in Elapsed(r) :
       /\ k[1] \in GetRoutes
       /\ now' = now + d
       /\ reqs' = [reqs EXCEPT ![r] =
            [NewReq EXCEPT !.route = k[1], !.pc = "done", !.code = 200,
                           !.served = "handler", !.response = [kind |-> "info"],
                           !.log = <<"replied">>]]
  /\ UNCHANGED <<cache, balance, allowance, authUsed, txs, rpcFlaky, limiter, confVars, auxVars>>

\* the bridge's configurations: FACILITATOR_MODE with CRE_MODE, and whether
\* FACILITATOR_PRIVATE_KEY is set
\* rate-limit parameters that the requests of the model never exceed
Unlimited == [max |-> MaxReqs, window |-> MaxTime + 1]

ManagedConfig ==
  [mode |-> "managed", creMode |-> "simulate", facilitatorKey |-> TRUE,
   rateLimit |-> Unlimited, chaoschainEnabled |-> FALSE]
Configs ==
  {ManagedConfig,
   [mode |-> "decentralized", creMode |-> "simulate", facilitatorKey |-> TRUE,
    rateLimit |-> Unlimited, chaoschainEnabled |-> FALSE],
   [mode |-> "decentralized", creMode |-> "remote", facilitatorKey |-> TRUE,
    rateLimit |-> Unlimited, chaoschainEnabled |-> FALSE]}

\* no function call is being checked
NoCall == [pc |-> "none"]

InitGateway ==
  /\ reqs = [r \in ReqIds |-> NewReq]
  /\ cache = [fp \in CacheKeys |-> NoEntry]
  /\ limiter = [windowStart |-> 0, count |-> 0]
  /\ balance = [t \in {"usdc", "w0g"} |->
                  IF t = "usdc" THEN 2 * Amount + Tip - 1 ELSE 2 * Amount + Tip]
  /\ allowance = [t \in {"w0g"} |-> 2 * Amount - 3]
  /\ authUsed = {}
  /\ txs = <<>>

(***************************************************************************)
(* Finality Confirmer (jobs/confirmer.ts, checkTransactionFinality).       *)
(***************************************************************************)
RecIds   == 1..MaxRecords
Sweepers == 1..MaxSweeps
Terminal    == {"confirmed", "failed"}
NonTerminal == {"pending", "partial_settlement"}
NoReceipt == [found |-> FALSE]
\* chains whose heads the model tracks; "solana" is a slug the registry lacks
SweptChains == {"base-sepolia", "skale-base-sepolia"}
Blocks == FirstBlock..(FirstBlock + MaxBlocks)

\* The kinds of row the store is seeded with: chain, receipt of tx_hash (fixed
\* once the transaction is mined: the model has no reorganisations), the fee
\* transaction of a relayer settlement with its receipt, initial status.  The first two are rows whose check always fails: a transaction that
\* was dropped, and a chain slug the registry does not know.  The rows are of
\* transactions of earlier runs, with hashes of their own.
RecordKinds ==
  << [tx_hash |-> 901, chain |-> "base-sepolia", status |-> "pending",
      receipt |-> NoReceipt, tx_hash_fee |-> NoHash, fee_receipt |-> NoReceipt],
     [tx_hash |-> 902, chain |-> "solana", status |-> "pending",
      receipt |-> [found |-> TRUE, blockNumber |-> FirstBlock, status |-> "success"],
      tx_hash_fee |-> NoHash, fee_receipt |-> NoReceipt],
     [tx_hash |-> 903, chain |-> "base-sepolia", status |-> "pending",
      receipt |-> [found |-> TRUE, blockNumber |-> FirstBlock, status |-> "success"],
      tx_hash_fee |-> NoHash, fee_receipt |-> NoReceipt],
     [tx_hash |-> 904, chain |-> "skale-base-sepolia", status |-> "partial_settlement",
      receipt |-> [found |-> TRUE, blockNumber |-> FirstBlock, status |-> "reverted"],
      tx_hash_fee |-> 914,
      fee_receipt |-> [found |-> TRUE, blockNumber |-> FirstBlock, status |-> "success"]] >>

\* Rows of relayer settlements that ended as partial_settlement: of the two
\* receipts settleWithRelayer awaited, at least one was not a success.
RelayerKinds ==
  << [tx_hash |-> 921, chain |-> "skale-base-sepolia", status |-> "partial_settlement",
      receipt |-> [found |-> TRUE, blockNumber |-> FirstBlock, status |-> "success"],
      tx_hash_fee |-> 931,
      fee_receipt |-> [found |-> TRUE, blockNumber |-> FirstBlock, status |-> "reverted"]],
     [tx_hash |-> 922, chain |-> "skale-base-sepolia", status |-> "partial_settlement",
      receipt |-> [found |-> TRUE, blockNumber |-> FirstBlock, status |-> "reverted"],
      tx_hash_fee |-> 932,
      fee_receipt |-> [found |-> TRUE, blockNumber |-> FirstBlock, status |-> "success"]],
     [tx_hash |-> 923, chain |-> "base-sepolia", status |-> "partial_settlement",
      receipt |-> [found |-> TRUE, blockNumber |-> FirstBlock, status |-> "success"],
      tx_hash_fee |-> 933,
      fee_receipt |-> [found |-> TRUE, blockNumber |-> FirstBlock, status |-> "reverted"]],
     [tx_hash |-> 924, chain |-> "base-sepolia", status |-> "partial_settlement",
      receipt |-> [found |-> TRUE, blockNumber |-> FirstBlock, status |-> "reverted"],
      tx_hash_fee |-> 934,
      fee_receipt |-> [found |-> TRUE, blockNumber |-> FirstBlock, status |-> "reverted"]] >>

\* A seed gives each row a kind of its own, in ascending order (the fetch does
\* not depend on the order of the rows).
Seeds ==
  {f \in [RecIds -> 1..Len(RecordKinds)] :
     \A i, j \in RecIds : i < j => f[i] < f[j]}

\* the same over the rows of relayer settlements
RelayerSeeds ==
  {f \in [RecIds -> 1..Len(RelayerKinds)] :
     \A i, j \in RecIds : i < j => f[i] < f[j]}

NewRow(k) ==
  [tx_hash |-> k.tx_hash, tx_hash_fee |-> k.tx_hash_fee, chain |-> k.chain,
   receipt |-> k.receipt, fee_receipt |-> k.fee_receipt,
   status |-> k.status, confirmations |-> 0, confirmed_at |-> -1]

IdleSweep ==
  [pc |-> "idle", batch |-> <<>>, idx |-> 0, currentBlock |-> 0, threw |-> FALSE]

RECURSIVE SetToSeq(_)
\* the elements of a set of numbers, ascending
SetToSeq(S) ==
  IF S = {} THEN <<>>
  ELSE LET m == CHOOSE x \in S : \A y \in S : x <= y
       IN  <<m>> \o SetToSeq(S \ {m})

Min(a, b) == IF a < b THEN a ELSE b

\* select('*').in('status', ['pending','partial_settlement']).limit(50): the
\* query has no ORDER BY, so which rows fill the limit is the store's choice
FetchResults ==
  LET open == {id \in RecIds : store[id].status \in NonTerminal}
      n    == Min(Limit, Cardinality(open))
  IN  {SetToSeq(S) : S \in {T \in SUBSET open : Cardinality(T) = n}}

\* mutant of checkTransactionFinality: the depth test is strict
checkTransactionFinality_Strict(receipt, currentBlock, requiredConfirmations) ==
  LET confirmations == currentBlock - receipt.blockNumber
  IN  [confirmed     |-> confirmations > requiredConfirmations,
       confirmations |-> confirmations,
       status        |-> receipt.status]

\* checkTransactionFinality, given the receipt and the block number it read
checkTransactionFinality(receipt, currentBlock, requiredConfirmations) ==
  LET confirmations == currentBlock - receipt.blockNumber
  IN  [confirmed     |-> confirmations >= requiredConfirmations,
       confirmations |-> confirmations,
       status        |-> receipt.status]

\* mutant of UpdateRow: the count-only update also writes status 'pending'
UpdateRow_ResetsStatus(row, result, at) ==
  IF result.confirmed
    THEN [row EXCEPT !.status = IF result.status = "success" THEN "confirmed" ELSE "failed",
                     !.confirmations = result.confirmations,
                     !.confirmed_at = at]
    ELSE [row EXCEPT !.status = "pending", !.confirmations = result.confirmations]

\* the row after the update of confirmer.ts:44-59
UpdateRow(row, result, at) ==
  IF result.confirmed
    THEN [row EXCEPT !.status = IF result.status = "success" THEN "confirmed" ELSE "failed",
                     !.confirmations = result.confirmations,
                     !.confirmed_at = at]
    ELSE [row EXCEPT !.confirmations = result.confirmations]

\* mutant of Advance: the try/catch encloses the loop, so a throw ends the sweep
Advance_AbortsOnError(sw, failed) ==
  IF sw.idx < Len(sw.batch) /\ ~failed
    THEN [sw EXCEPT !.idx = sw.idx + 1, !.pc = "check", !.currentBlock = 0,
                    !.threw = failed]
    ELSE [IdleSweep EXCEPT !.threw = failed]

\* the sweep after the iteration at position sw.idx ended (normally, or in the
\* catch block of confirmer.ts:60-62): the for loop moves on, and the call
\* returns after the last row.  threw records how that iteration ended.
Advance(sw, failed) ==
  IF sw.idx < Len(sw.batch)
    THEN [sw EXCEPT !.idx = sw.idx + 1, !.pc = "check", !.currentBlock = 0,
                    !.threw = failed]
    ELSE [IdleSweep EXCEPT !.threw = failed]

\* confirmPendingTransactions() is called (at startup or by the 30 s timer) and
\* runs up to its first row: the configuration check and the select.
StartSweep(s) ==
  /\ sweeps[s].pc = "idle"
  /\ \A t \in Sweepers : t < s => sweeps[t].pc # "idle"
  /\ IF ~supabaseConfigured
       THEN sweeps' = [sweeps EXCEPT ![s] = IdleSweep]
       ELSE \E o \in Outcomes :
              IF o = "throw"
                THEN sweeps' = [sweeps EXCEPT ![s] = IdleSweep]
                ELSE \E batch \in FetchResults :
                       sweeps' = [sweeps EXCEPT ![s] =
                         IF batch = <<>> THEN IdleSweep
                         ELSE [IdleSweep EXCEPT !.pc = "check", !.batch = batch, !.idx = 1]]
  /\ UNCHANGED <<store, head, now, supabaseConfigured, rpcFlaky, gwVars, auxVars>>

\* One row's check: getConfirmations(tx.chain), then checkTransactionFinality's
\* awaits of getTransactionReceipt and getBlockNumber.  A receipt never changes
\* once it exists, so the one read that depends on when it runs is the block
\* number, and the two awaits are one step.  Any of the three may throw.
CheckFinality(s) ==
  LET sw  == sweeps[s]
      row == store[sw.batch[sw.idx]]
      req == getConfirmations(row.chain)
  IN  /\ sw.pc = "check"
      /\ \E o \in Outcomes :
           sweeps' = [sweeps EXCEPT ![s] =
             IF ~req.ok \/ o = "throw" \/ ~row.receipt.found
               THEN Advance(sw, TRUE)
               ELSE [sw EXCEPT !.pc = "update", !.currentBlock = head[row.chain]]]
      /\ UNCHANGED <<store, head, now, supabaseConfigured, rpcFlaky, gwVars, auxVars>>

\* the await of update(...).eq('id', tx.id)
WriteRow(s) ==
  LET sw     == sweeps[s]
      id     == sw.batch[sw.idx]
      row    == store[id]
      result == checkTransactionFinality(row.receipt, sw.currentBlock,
                                         getConfirmations(row.chain).value)
  IN  /\ sw.pc = "update"
      /\ \E o \in Outcomes :
           IF o = "throw"
             THEN /\ sweeps' = [sweeps EXCEPT ![s] = Advance(sw, TRUE)]
                  /\ UNCHANGED store
             ELSE /\ sweeps' = [sweeps EXCEPT ![s] = Advance(sw, FALSE)]
                  /\ store' = [store EXCEPT ![id] = UpdateRow(store[id], result, now)]
      /\ UNCHANGED <<head, now, supabaseConfigured, rpcFlaky, gwVars, auxVars>>

confirmPendingTransactions(s) ==
  \/ StartSweep(s)
  \/ CheckFinality(s)
  \/ WriteRow(s)

\* the chains produce a block each; the clock moves with them
ProduceBlock ==
  /\ \A c \in DOMAIN head : head[c] < FirstBlock + MaxBlocks
  /\ head' = [c \in DOMAIN head |-> head[c] + 1]
  /\ now' = now + 1
  /\ UNCHANGED <<store, sweeps, supabaseConfigured, rpcFlaky, gwVars, auxVars>>

InitConfirmer ==
  /\ traffic = "none"
  /\ InitGateway
  /\ config = ManagedConfig
  /\ call = NoCall
  /\ \E f \in Seeds : store = [id \in RecIds |-> NewRow(RecordKinds[f[id]])]
  /\ head = [c \in SweptChains |-> FirstBlock]
  /\ now = 0
  /\ sweeps = [s \in Sweepers |-> IdleSweep]
  /\ supabaseConfigured \in BOOLEAN
  /\ rpcFlaky = TRUE

\* startConfirmer: one call at once and one per timer tick, each running on its
\* own; the chains produce blocks meanwhile
NextConfirmer ==
  \/ \E s \in Sweepers : confirmPendingTransactions(s)
  \/ ProduceBlock

SpecConfirmer == InitConfirmer /\ [][NextConfirmer]_vars

\* The store is configured, no call fails transiently, the timer keeps firing,
\* every await completes and the chains keep producing blocks.
InitConfirmerLive ==
  /\ traffic = "none"
  /\ InitGateway
  /\ config = ManagedConfig
  /\ call = NoCall
  /\ \E f \in Seeds : store = [id \in RecIds |-> NewRow(RecordKinds[f[id]])]
  /\ head = [c \in SweptChains |-> FirstBlock]
  /\ now = 0
  /\ sweeps = [s \in Sweepers |-> IdleSweep]
  /\ supabaseConfigured = TRUE
  /\ rpcFlaky = FALSE

SpecConfirmerLive ==
  /\ InitConfirmerLive
  /\ [][NextConfirmer]_vars
  /\ WF_vars(ProduceBlock)
  /\ \A s \in Sweepers :
       WF_vars(StartSweep(s)) /\ WF_vars(CheckFinality(s)) /\ WF_vars(WriteRow(s))

\* The Confirmer over a store that holds the partial settlements of the
\* relayer strategy.
InitConfirmerRelayer ==
  /\ traffic = "none"
  /\ InitGateway
  /\ config = ManagedConfig
  /\ call = NoCall
  /\ \E f \in RelayerSeeds : store = [id \in RecIds |-> NewRow(RelayerKinds[f[id]])]
  /\ head = [c \in SweptChains |-> FirstBlock]
  /\ now = 0
  /\ sweeps = [s \in Sweepers |-> IdleSweep]
  /\ supabaseConfigured = TRUE
  /\ rpcFlaky = TRUE

SpecConfirmerRelayer == InitConfirmerRelayer /\ [][NextConfirmer]_vars

(***************************************************************************)
(* The gateway: requests arrive and are handled concurrently while the     *)
(* chains include the facilitator's transactions.  The Confirmer is off.   *)
(***************************************************************************)
Init ==
  /\ traffic = "plain"
  /\ InitGateway
  /\ config \in Configs
  /\ call = NoCall
  /\ store = [id \in RecIds |-> NewRow(RecordKinds[id])]
  /\ head = [c \in SweptChains |-> FirstBlock]
  /\ now = 0
  /\ sweeps = [s \in Sweepers |-> IdleSweep]
  /\ supabaseConfigured = FALSE
  /\ rpcFlaky = TRUE

Handle(r) ==
  \/ Receive(r)
  \/ ReadBalance(r)
  \/ ReadAuthorization(r)
  \/ BroadcastMerchant(r)
  \/ BroadcastFee(r)
  \/ AwaitReceipts(r)
  \/ StoreAndReply(r)

Next ==
  \/ \E r \in ReqIds : Handle(r)
  \/ \E h \in 1..Len(txs) : MineTx(h)

Spec == Init /\ [][Next]_vars

(***************************************************************************)
(* The gateway with the agent-identity integration on or off and clients   *)
(* that name an agent; and the gateway with clients that send a body the   *)
(* schema rejects and an idempotency store whose writes may fail.          *)
(***************************************************************************)
InitAgent ==
  /\ traffic = "agents"
  /\ InitGateway
  /\ config \in {ManagedConfig, [ManagedConfig EXCEPT !.chaoschainEnabled = TRUE]}
  /\ call = NoCall
  /\ store = [id \in RecIds |-> NewRow(RecordKinds[id])]
  /\ head = [c \in SweptChains |-> FirstBlock]
  /\ now = 0
  /\ sweeps = [s \in Sweepers |-> IdleSweep]
  /\ supabaseConfigured = FALSE
  /\ rpcFlaky = TRUE

NextAgent ==
  \/ Next
  \/ \E r \in ReqIds : LinkAgentIdentity(r)

SpecAgent == InitAgent /\ [][NextAgent]_vars

InitFaulty ==
  /\ traffic = "faulty"
  /\ InitGateway
  /\ config = ManagedConfig
  /\ call = NoCall
  /\ store = [id \in RecIds |-> NewRow(RecordKinds[id])]
  /\ head = [c \in SweptChains |-> FirstBlock]
  /\ now = 0
  /\ sweeps = [s \in Sweepers |-> IdleSweep]
  /\ supabaseConfigured = FALSE
  /\ rpcFlaky = TRUE

NextFaulty ==
  \/ Next
  \/ \E r \in ReqIds : StoreFails(r)

SpecFaulty == InitFaulty /\ [][NextFaulty]_vars

(***************************************************************************)
(* The gateway with clients that send an Idempotency-Key header: the same  *)
(* key with two different bodies, and one body under two keys.             *)
(***************************************************************************)
InitKeyed ==
  /\ traffic = "keyed"
  /\ InitGateway
  /\ config = ManagedConfig
  /\ call = NoCall
  /\ store = [id \in RecIds |-> NewRow(RecordKinds[id])]
  /\ head = [c \in SweptChains |-> FirstBlock]
  /\ now = 0
  /\ sweeps = [s \in Sweepers |-> IdleSweep]
  /\ supabaseConfigured = FALSE
  /\ rpcFlaky = TRUE

SpecKeyed == InitKeyed /\ [][Next]_vars

(***************************************************************************)
(* The gateway behind a rate limit its client exceeds, with GET requests   *)
(* among the traffic.                                                      *)
(***************************************************************************)
InitRate ==
  /\ traffic = "limited"
  /\ InitGateway
  /\ config = [ManagedConfig EXCEPT !.rateLimit = [max |-> RateMax, window |-> RateWindow]]
  /\ call = NoCall
  /\ store = [id \in RecIds |-> NewRow(RecordKinds[id])]
  /\ head = [c \in SweptChains |-> FirstBlock]
  /\ now = 0
  /\ sweeps = [s \in Sweepers |-> IdleSweep]
  /\ supabaseConfigured = FALSE
  /\ rpcFlaky = TRUE

NextRate ==
  \/ Next
  \/ \E r \in ReqIds : RateLimited(r)
  \/ \E r \in ReqIds : ServeGet(r)

SpecRate == InitRate /\ [][NextRate]_vars

(***************************************************************************)
(* verifyPaymentManaged on its own: one call with a request and with what  *)
(* its reads return, drawn from the cases the function tells apart.        *)
(***************************************************************************)
\* the values of validAfter and validBefore: absent, 0, and around the clock
TimeBounds == {Absent, 0, Clock - 1, Clock, Clock + 1}

\* asset strings: the symbols, an upper-case spelling, a symbol the registry
\* lacks, and the contract addresses of usdc on base-sepolia and w0g on 0g-mainnet
Assets ==
  {"usdc", "USDC", "w0g", "dai", TOKENS["usdc"].addresses["base-sepolia"],
   TOKENS["w0g"].addresses["0g-mainnet"]}

VerifierRequests ==
  {[paymentHeader |->
      [format |-> f, from |-> "payer", to |-> "merchant", value |-> Amount,
       validAfter |-> va, validBefore |-> vb, nonce |-> "n1", signed |-> sig],
    paymentRequirements |->
      [network |-> n, asset |-> a, payTo |-> "merchant",
       maxAmountRequired |-> Amount, integerLiteral |-> lit, resource |-> "/paid"]] :
     f \in {"standard", "unknown", "undecodable"}, va \in TimeBounds, vb \in TimeBounds,
     n \in {"base-sepolia", "0g-mainnet", "solana"}, a \in Assets, lit \in BOOLEAN,
     sig \in BOOLEAN}

\* what the function's reads return: the clock, balanceOf, authorizationState,
\* allowance and process.env.FACILITATOR_PRIVATE_KEY
VerifierEnvs ==
  [now : {Clock},
   balanceOf : {ReadFailed, Read(Amount - 1), Read(Amount), Read(Amount + 1)},
   authorizationState : {ReadFailed, Read(FALSE), Read(TRUE)},
   allowance : {ReadFailed, Read(Amount - 1), Read(Amount)},
   facilitatorKey : BOOLEAN]

\* the state of the parts that take no step while a function is checked
InitRest ==
  /\ traffic = "none"
  /\ InitGateway
  /\ store = [id \in RecIds |-> NewRow(RecordKinds[id])]
  /\ head = [c \in SweptChains |-> FirstBlock]
  /\ now = 0
  /\ sweeps = [s \in Sweepers |-> IdleSweep]
  /\ supabaseConfigured = FALSE
  /\ rpcFlaky = FALSE
  /\ config = ManagedConfig

InitVerifier ==
  /\ InitRest
  /\ \E rq \in VerifierRequests, e \in VerifierEnvs :
       call = [pc |-> "called", request |-> rq, env |-> e, result |-> NoVerification,
               reads |-> <<>>]

\* the call returns (or, were there no catch block, throws)
VerifierReturns ==
  /\ call.pc = "called"
  /\ call' = [call EXCEPT !.pc = "returned",
                          !.result = verifyPaymentManaged(call.request, call.env),
                          !.reads = ChainReads(call.request, call.env)]
  /\ UNCHANGED <<gwVars, confVars, now, rpcFlaky, config, traffic>>

NextVerifier == VerifierReturns

SpecVerifier == InitVerifier /\ [][NextVerifier]_vars

(***************************************************************************)
(* The registry's lookups on their own: one pair of a network slug and an  *)
(* asset string, and what isSupported, getTokenAddress and                 *)
(* getSupportedAssets return for it.                                       *)
(***************************************************************************)
\* network slugs: the registered chains, a slug no chain has, and two names
\* that are no chain but a property of every object
RegistryNetworks == DOMAIN CHAINS \cup {"solana"} \cup ObjectPrototypeKeys

\* asset strings: the registered symbols, an upper-case spelling, a symbol the
\* registry lacks and a contract address
RegistryAssets ==
  DOMAIN TOKENS \cup {"USDC", "dai", TOKENS["usdc"].addresses["base-sepolia"]}

InitRegistry ==
  /\ InitRest
  /\ \E n \in RegistryNetworks, a \in RegistryAssets :
       call = [pc |-> "called", network |-> n, asset |-> a, result |-> <<>>]

RegistryReturns ==
  /\ call.pc = "called"
  /\ call' = [call EXCEPT !.pc = "returned",
                          !.result =
                            [isSupported        |-> isSupported(call.network, call.asset),
                             getTokenAddress    |-> getTokenAddress(call.network, call.asset),
                             getSupportedAssets |-> getSupportedAssets(call.network)]]
  /\ UNCHANGED <<gwVars, confVars, now, rpcFlaky, config, traffic>>

NextRegistry == RegistryReturns

SpecRegistry == InitRegistry /\ [][NextRegistry]_vars

(***************************************************************************)
(* The fee split on its own: calculateFee on a gross amount, and the two   *)
(* transfers the relayer strategy builds from the split the handler passes.*)
(***************************************************************************)
\* a relayer request for the gross amount
RelayerBody(amount) ==
  [Body("0g-mainnet", "w0g", "n1", amount) EXCEPT
     !.paymentRequirements.maxAmountRequired = amount]

InitFee ==
  /\ InitRest
  /\ \E a \in 0..MaxGross : call = [pc |-> "called", amount |-> a, result |-> <<>>]

\* `const feeCalc = await calculateFee(amount)` and the transfers of
\* settlePaymentManaged(request, feeCalc.feeAmount, feeCalc.netAmount)
FeeReturns ==
  /\ call.pc = "called"
  /\ call' = [call EXCEPT !.pc = "returned",
                          !.result = [feeCalc   |-> calculateFee(call.amount),
                                      breakdown |-> computeFeeBreakdown(call.amount),
                                      merchant  |-> MerchantTx(1, RelayerBody(call.amount)),
                                      fee       |-> FeeTx(1, RelayerBody(call.amount))]]
  /\ UNCHANGED <<gwVars, confVars, now, rpcFlaky, config, traffic>>

NextFee == FeeReturns

SpecFee == InitFee /\ [][NextFee]_vars

(***************************************************************************)
(* Claims about the gateway.                                               *)
(***************************************************************************)
FingerprintOf(rq) == Fingerprint(rq.route, BodyOf(rq))

\* the merchant transfers of requests with fingerprint fp that took effect
EffectiveTransfers(fp) ==
  {h \in 1..Len(txs) :
     /\ txs[h].role = "merchant" /\ txs[h].receipt = "success"
     /\ FingerprintOf(reqs[txs[h].req]) = fp}

\* C1: for two /settle requests with the same fingerprint, the second arriving
\* after the first's response was stored or while the first is still being
\* handled, the payment takes effect on chain at most once (EIP-3009 and
\* relayer alike).
C1_SettledAtMostOnce ==
  \A r \in ReqIds :
    (reqs[r].route = "/settle" /\ (reqs[r].hitAtEntry \/ reqs[r].inFlight # {}))
      => Cardinality(EffectiveTransfers(FingerprintOf(reqs[r]))) <= 1

\* C2: a request that finds a live entry for its fingerprint (it arrives within
\* the TTL after an earlier request's response was stored) is answered 200 with
\* exactly the stored body of a handled request with that fingerprint, timestamp
\* included, without a Verifier call, a Settler call or a cache write.
C2_CachedReplyIsTheStoredOne ==
  \A r \in ReqIds :
    reqs[r].hitAtEntry =>
      /\ reqs[r].pc = "done" /\ reqs[r].code = 200 /\ reqs[r].served = "cache"
      /\ \E q \in ReqIds :
           /\ q # r /\ reqs[q].served = "handler" /\ reqs[q].code = 200
           /\ FingerprintOf(reqs[q]) = FingerprintOf(reqs[r])
           /\ reqs[r].response = reqs[q].response
           /\ reqs[r].response.timestamp = reqs[q].stableTimestamp
      /\ reqs[r].verification = NoVerification
      /\ reqs[r].hashes = <<>> /\ \A h \in 1..Len(txs) : txs[h].req # r
      /\ ~Logged(reqs[r], "verified") /\ ~Logged(reqs[r], "write")
      /\ ~Logged(reqs[r], "stored")

\* a /settle request was answered from the cache with a confirmed settlement
\* stored at an earlier tick
C2_Witness ==
  \E r \in ReqIds :
    /\ reqs[r].hitAtEntry /\ reqs[r].served = "cache" /\ reqs[r].route = "/settle"
    /\ reqs[r].response.status = "confirmed" /\ reqs[r].response.timestamp < now

\* C3: every transferWithAuthorization the Settler broadcasts carries exactly
\* auth.value of the request's payment header, and the response of an EIP-3009
\* settlement has no fee transaction hash.
C3_SignedAmountIsTransferred ==
  /\ \A h \in 1..Len(txs) :
       txs[h].fn = "transferWithAuthorization"
         => txs[h].value = BodyOf(reqs[txs[h].req]).paymentHeader.value
  /\ \A r \in ReqIds :
       (reqs[r].route = "/settle" /\ reqs[r].response.kind = "settle"
          /\ UsesEIP3009(BodyOf(reqs[r])))
         => reqs[r].response.txHashFee = NoHash

\* an authorization signed for more than maxAmountRequired was settled and the
\* request answered
C3_Witness ==
  \E r \in ReqIds :
    /\ reqs[r].pc = "done" /\ reqs[r].served = "handler"
    /\ reqs[r].response.kind = "settle" /\ reqs[r].response.status = "confirmed"
    /\ BodyOf(reqs[r]).paymentHeader.value = Amount + Tip
    /\ txs[reqs[r].hashes[1]].value = Amount + Tip

\* C4: within one /settle request the Verifier's result precedes every
\* on-chain write, the writes precede the start of the receipt wait, and the
\* response is stored, and then returned, only after the receipt wait produced
\* an outcome.
C4_SettleOrdering ==
  \A r \in ReqIds :
    LET rq == reqs[r]
        L  == rq.log
    IN  rq.route = "/settle" =>
          /\ \A i \in 1..Len(L) :
               /\ L[i] = "write"
                    => /\ \E j \in 1..(i - 1) : L[j] = "verified"
                       /\ rq.verification.done /\ rq.verification.isValid
               /\ L[i] = "wait"
                    => /\ \E j \in 1..(i - 1) : L[j] = "write"
                       /\ \A k \in (i + 1)..Len(L) : L[k] # "write"
               /\ (L[i] = "stored" /\ Logged(rq, "write"))
                    => \E j \in 1..(i - 1) :
                         L[j] = "outcome" /\ \E k \in 1..(j - 1) : L[k] = "wait"
               /\ (L[i] = "replied" /\ rq.code = 200 /\ rq.served = "handler")
                    => i > 1 /\ L[i - 1] = "stored"
          /\ \A h \in 1..Len(txs) : txs[h].req = r => Logged(rq, "verified")
          /\ Logged(rq, "outcome")
               => \A i \in 1..Len(rq.hashes) : txs[rq.hashes[i]].receipt # "none"
          /\ (Logged(rq, "stored") /\ rq.hashes # <<>>)
               => rq.response.status \in {"confirmed", "failed", "partial_settlement"}

\* a relayer settlement went through all its stages and was answered
C4_Witness ==
  \E r \in ReqIds :
    /\ reqs[r].route = "/settle" /\ reqs[r].code = 200
    /\ reqs[r].log = <<"verified", "write", "write", "wait", "outcome", "stored", "replied">>

\* C5: when the Verifier returns isValid false on /settle the Settler is not
\* invoked (no transaction is broadcast for the request) and the reply is 200
\* with success false, error equal to the Verifier's invalidReason and a null
\* txHash.
C5_InvalidIsNotSettled ==
  \A r \in ReqIds :
    LET rq == reqs[r]
    IN  (rq.route = "/settle" /\ rq.verification.done /\ ~rq.verification.isValid) =>
          /\ rq.pc \in {"store", "done"}
          /\ rq.hashes = <<>> /\ \A h \in 1..Len(txs) : txs[h].req # r
          /\ ~Logged(rq, "write")
          /\ rq.response.kind = "settle" /\ rq.response.ok = FALSE
          /\ rq.response.error = rq.verification.invalidReason
          /\ rq.response.txHash = NoHash
          /\ rq.pc = "done" => rq.code = 200

\* a /settle request whose authorization another request had already used up
\* was answered
C5_Witness ==
  \E r \in ReqIds :
    /\ reqs[r].route = "/settle" /\ reqs[r].pc = "done" /\ reqs[r].code = 200
    /\ reqs[r].verification.done
    /\ reqs[r].verification.invalidReason = "Authorization already used"
    /\ reqs[r].response.ok = FALSE

\* C11: whenever the Settler has broadcast a transaction for a /settle request,
\* the transaction store holds a record with that tx_hash and its chain (created
\* pending, so that the Confirmer sweeps it): no later than the request's reply,
\* every transaction the request broadcast has its row.
C11_BroadcastIsRecorded ==
  \A r \in ReqIds :
    (reqs[r].pc = "done" /\ reqs[r].served = "handler") =>
      \A i \in 1..Len(reqs[r].hashes) :
        \E id \in RecIds :
          /\ store[id].tx_hash = reqs[r].hashes[i]
          /\ store[id].chain = txs[reqs[r].hashes[i]].network

\* C17: a relayer settlement whose two receipts are both success is reported
\* confirmed, one with at least one receipt that is not success is reported
\* partial_settlement, and the response carries both txHash and txHashFee.
C17_RelayerOutcome ==
  \A r \in ReqIds :
    LET rq == reqs[r]
    IN  (rq.route = "/settle" /\ Logged(rq, "outcome") /\ ~UsesEIP3009(BodyOf(rq))) =>
          LET merchant == txs[rq.hashes[1]]
              fee      == txs[rq.hashes[2]]
          IN  /\ merchant.role = "merchant" /\ fee.role = "fee"
              /\ merchant.req = r /\ fee.req = r
              /\ rq.response.status =
                   IF merchant.receipt = "success" /\ fee.receipt = "success"
                     THEN "confirmed" ELSE "partial_settlement"
              /\ rq.response.txHash = rq.hashes[1] /\ rq.response.txHash # NoHash
              /\ rq.response.txHashFee = rq.hashes[2] /\ rq.response.txHashFee # NoHash

\* a relayer settlement whose merchant transfer reverted and whose fee transfer
\* succeeded was answered partial_settlement, and another was confirmed
C17_Witness ==
  \E r, q \in ReqIds :
    /\ reqs[r].pc = "done" /\ reqs[r].response.kind = "settle"
    /\ reqs[r].response.status = "partial_settlement"
    /\ txs[reqs[r].hashes[1]].receipt = "reverted"
    /\ txs[reqs[r].hashes[2]].receipt = "success"
    /\ reqs[q].response.kind = "settle" /\ reqs[q].response.status = "confirmed"
    /\ ~UsesEIP3009(BodyOf(reqs[q]))

\* C18: in every managed /settle response that carries a status, success is
\* true exactly when the status is confirmed or pending; failed and
\* partial_settlement come with success false.
C18_SuccessFollowsStatus ==
  \A r \in ReqIds :
    LET resp == reqs[r].response
    IN  (config.mode = "managed" /\ resp.kind = "settle" /\ resp.status # "undefined") =>
          /\ resp.status \in {"confirmed", "pending", "failed", "partial_settlement"}
          /\ resp.ok <=> resp.status \in {"confirmed", "pending"}
          /\ resp.status \in {"failed", "partial_settlement"} => ~resp.ok

\* a settlement was answered partial_settlement with success false, and another
\* confirmed with success true
C18_Witness ==
  \E r, q \in ReqIds :
    /\ reqs[r].pc = "done" /\ reqs[r].code = 200 /\ reqs[r].response.kind = "settle"
    /\ reqs[r].response.status = "partial_settlement" /\ ~reqs[r].response.ok
    /\ reqs[q].pc = "done" /\ reqs[q].code = 200 /\ reqs[q].response.kind = "settle"
    /\ reqs[q].response.status = "confirmed" /\ reqs[q].response.ok

\* C19: for every gross amount the fee is floor(amount * 100 / 10000) (1%,
\* rounded down) and fee + net = amount exactly; the feeAmount and netAmount the
\* handler passes to the Settler, and so the values of the relayer's two
\* transfers, are this split of maxAmountRequired.
C19_FeeSplit ==
  call.pc = "returned" =>
    LET amount == call.amount
        fee    == call.result.feeCalc.feeAmount
        net    == call.result.feeCalc.netAmount
    IN  /\ fee >= 0 /\ net >= 0
        /\ fee * 10000 <= amount * 100 /\ amount * 100 < (fee + 1) * 10000
        /\ fee + net = amount
        /\ call.result.breakdown = [amount |-> amount, fee |-> fee, net |-> net]
        /\ call.result.merchant.value = net /\ call.result.merchant.to = "merchant"
        /\ call.result.fee.value = fee /\ call.result.fee.to = "treasury"

\* the split of 199: the fee rounds down to 1 and the net is 198
C19_Witness ==
  /\ call.pc = "returned" /\ call.amount = 199
  /\ call.result.feeCalc.feeAmount = 1 /\ call.result.feeCalc.netAmount = 198
  /\ call.result.fee.value = 1 /\ call.result.merchant.value = 198

\* C20: every 200 response of /verify and /settle carries the amount, fee and
\* net breakdown of the request's maxAmountRequired, whatever the outcome
\* (valid or invalid, success or failure), in managed and in decentralized mode.
C20_BreakdownAlwaysPresent ==
  \A r \in ReqIds :
    reqs[r].code = 200 =>
      LET resp == reqs[r].response
          fb   == calculateFee(BodyOf(reqs[r]).paymentRequirements.maxAmountRequired)
      IN  /\ resp.kind = (IF reqs[r].route = "/verify" THEN "verify" ELSE "settle")
          /\ {"amount", "fee", "net"} \subseteq DOMAIN resp
          /\ resp.amount = BodyOf(reqs[r]).paymentRequirements.maxAmountRequired
          /\ resp.fee = fb.feeAmount
          /\ resp.net = fb.netAmount

\* in decentralized mode a /settle was answered 200 with the breakdown, the
\* answer was then served again from the cache
C20_Witness ==
  \E r, q \in ReqIds :
    /\ config.mode = "decentralized"
    /\ reqs[r].route = "/settle" /\ reqs[r].code = 200 /\ reqs[r].served = "handler"
    /\ reqs[r].response.ok /\ reqs[r].response.net = Amount - reqs[r].response.fee
    /\ reqs[q].code = 200 /\ reqs[q].served = "cache"
    /\ reqs[q].response = reqs[r].response

(***************************************************************************)
(* Claims about the Verifier.                                              *)
(***************************************************************************)
\* the request names a chain and a token the registry has, its header and
\* amount parse, every read the function makes succeeds and, for a relayer
\* token, the facilitator key is set
NothingFails(request, env) ==
  LET pr == request.paymentRequirements
  IN  /\ pr.network \in DOMAIN CHAINS
      /\ getTokenAddress(pr.network, pr.asset).ok
      /\ request.paymentHeader.format = "standard"
      /\ pr.integerLiteral
      /\ env.balanceOf.ok
      /\ IF getTokenConfig(pr.asset).config.supportsEIP3009
           THEN env.authorizationState.ok
           ELSE env.facilitatorKey /\ env.allowance.ok

\* C12: verifyPaymentManaged never throws: for every input it returns a result,
\* and when the network or the token is unknown, the header malformed or
\* undecodable, the amount unparsable, an RPC read fails or the facilitator key
\* is missing, the result is isValid false with a non-null invalidReason.
C12_VerifierNeverThrows ==
  call.pc = "returned" =>
    /\ call.result.done /\ ~call.result.thrown
    /\ call.result.isValid => NothingFails(call.request, call.env)
    /\ ~call.result.isValid => call.result.invalidReason # "null"

\* a relayer-token request was verified with no facilitator key configured:
\* the throw was caught and reported as the reason
C12_Witness ==
  /\ call.pc = "returned" /\ ~call.result.isValid /\ ~call.result.thrown
  /\ ~call.env.facilitatorKey
  /\ call.result.invalidReason = "FACILITATOR_PRIVATE_KEY not configured for relayer check"

\* the call gets as far as the balanceOf read: the registry lookups, the header
\* and the amount parse, and the validity window does not reject
ReachesBalanceCheck(request, env) ==
  LET pr   == request.paymentRequirements
      auth == request.paymentHeader
  IN  /\ pr.network \in DOMAIN CHAINS
      /\ getTokenAddress(pr.network, pr.asset).ok
      /\ auth.format = "standard"
      /\ pr.integerLiteral
      /\ ~(auth.validAfter \notin {Absent, 0} /\ env.now < auth.validAfter)
      /\ ~(auth.validBefore \notin {Absent, 0} /\ env.now > auth.validBefore)

\* C13: the Verifier returns isValid true only if the payer's balanceOf, as
\* read, is at least maxAmountRequired: an amount equal to the balance passes
\* the balance check and an amount of balance + 1 is rejected with the
\* insufficient-balance reason.
C13_BalanceCoversAmount ==
  call.pc = "returned" =>
    LET amount == call.request.paymentRequirements.maxAmountRequired
        bal    == call.env.balanceOf
    IN  /\ call.result.isValid => (bal.ok /\ bal.value >= amount)
        /\ (ReachesBalanceCheck(call.request, call.env) /\ bal.ok) =>
             /\ amount = bal.value + 1 =>
                  (~call.result.isValid /\ call.result.invalidReason = "Insufficient balance")
             /\ amount = bal.value => call.result.invalidReason # "Insufficient balance"
             /\ (call.result.invalidReason = "Insufficient balance") <=> (bal.value < amount)

\* a payer whose balance equals the amount exactly was accepted
C13_Witness ==
  /\ call.pc = "returned" /\ call.result.isValid
  /\ call.env.balanceOf.value = call.request.paymentRequirements.maxAmountRequired

\* the call gets as far as the validity window
ReachesTimeCheck(request) ==
  LET pr == request.paymentRequirements
  IN  /\ pr.network \in DOMAIN CHAINS
      /\ getTokenAddress(pr.network, pr.asset).ok
      /\ request.paymentHeader.format = "standard"
      /\ pr.integerLiteral

\* C14: an authorization is rejected as not yet valid exactly when validAfter
\* is present and now < validAfter, and (when not rejected so) as expired
\* exactly when validBefore is present and now > validBefore: validAfter = now
\* and validBefore = now pass, validAfter = now + 1 and validBefore = now - 1 are
\* rejected, and an absent bound is not checked.
C14_ValidityWindow ==
  (call.pc = "returned" /\ ReachesTimeCheck(call.request)) =>
    LET auth   == call.request.paymentHeader
        clock  == call.env.now
        early  == auth.validAfter # Absent /\ clock < auth.validAfter
        late   == auth.validBefore # Absent /\ clock > auth.validBefore
        reason == call.result.invalidReason
    IN  /\ (reason = "Authorization not yet valid") <=> early
        /\ ~early => ((reason = "Authorization expired") <=> late)
        /\ (early \/ late) => ~call.result.isValid

TokensAt(network, asset) ==
  {t \in DOMAIN TOKENS :
     /\ network \in DOMAIN TOKENS[t].addresses
     /\ TOKENS[t].addresses[network] = asset
     /\ asset # ZeroAddress}

\* C16: the Verifier accepts paymentRequirements.asset given as a token symbol
\* or as the token's configured contract address on the network: a request
\* naming the address gets the result of the same request naming the symbol.
C16_AssetBySymbolOrAddress ==
  call.pc = "returned" =>
    \A t \in TokensAt(call.request.paymentRequirements.network,
                      call.request.paymentRequirements.asset) :
      call.result =
        verifyPaymentManaged([call.request EXCEPT !.paymentRequirements.asset = t],
                             call.env)

(***************************************************************************)
(* Claims about the Confirmer.                                             *)
(***************************************************************************)
AllowedTransitions ==
  ({"pending"} \X {"partial_settlement", "confirmed", "failed"})
    \cup ({"partial_settlement"} \X {"confirmed", "failed"})

\* C6: over any sequence of sweeps a row's status only moves
\* pending -> {partial_settlement, confirmed, failed} or
\* partial_settlement -> {confirmed, failed}; never out of confirmed or failed
\* and never from partial_settlement back to pending.
C6_StatusOnlyMovesForward ==
  [][\A id \in RecIds :
       store'[id].status # store[id].status
         => <<store[id].status, store'[id].status>> \in AllowedTransitions]_vars

\* a pending row was confirmed and a partial_settlement row was failed
C6_Witness ==
  \E i, j \in RecIds :
    /\ store[i].status = "confirmed"
    /\ store[j].status = "failed" /\ store[j].chain = "skale-base-sepolia"

\* C7: once a row is confirmed or failed no sweep writes to it again (status,
\* confirmations, confirmed_at), also not a sweep that fetched it while it was
\* non-terminal and overlaps a later sweep.
C7_TerminalRowNeverWritten ==
  [][\A id \in RecIds :
       store[id].status \in Terminal => store'[id] = store[id]]_vars

\* the step of sweep s is the end of an iteration (the loop moves on or returns)
IterationEnds(s) ==
  /\ sweeps[s].pc # "idle"
  /\ sweeps'[s] # sweeps[s]
  /\ sweeps'[s].pc = "idle" \/ sweeps'[s].idx = sweeps[s].idx + 1

\* C8: within one sweep a failure while processing a row (registry lookup,
\* receipt read, block-number read or store update throws) does not abort the
\* sweep: the loop goes through the batch position by position and returns only
\* after the last one, and the row whose iteration threw is left unchanged.
C8_FailureDoesNotAbortSweep ==
  [][\A s \in Sweepers :
       LET a == sweeps[s]
           b == sweeps'[s]
       IN  (a.pc # "idle" /\ b # a) =>
             /\ \/ a.pc = "check" /\ b.pc = "update" /\ b.idx = a.idx /\ b.batch = a.batch
                \/ a.idx < Len(a.batch) /\ b.pc = "check" /\ b.idx = a.idx + 1
                     /\ b.batch = a.batch
                \/ a.idx = Len(a.batch) /\ b.pc = "idle"
             /\ (IterationEnds(s) /\ b.threw)
                  => store'[a.batch[a.idx]] = store[a.batch[a.idx]]]_vars

\* a sweep whose first row threw has checked its second row and is about to
\* update it
C8_Witness ==
  \E s \in Sweepers :
    sweeps[s].pc = "update" /\ sweeps[s].idx = 2 /\ sweeps[s].threw

\* C9: for each swept row, with confirmations = currentBlock -
\* receipt.blockNumber: at confirmations >= required(chain) the row becomes
\* confirmed if the receipt succeeded and failed otherwise, with confirmations
\* and confirmed_at persisted; below that only the confirmations count is
\* persisted (at block 100 with required 2: pending with confirmations 1 at block
\* 101, confirmed at block 102).
C9_UpdateFollowsDepth ==
  [][\A s \in Sweepers :
       (sweeps[s].pc = "update" /\ IterationEnds(s) /\ ~sweeps'[s].threw) =>
         LET id            == sweeps[s].batch[sweeps[s].idx]
             old           == store[id]
             new           == store'[id]
             confirmations == sweeps[s].currentBlock - old.receipt.blockNumber
         IN  IF confirmations >= CHAINS[old.chain].confirmations
               THEN /\ new.status = IF old.receipt.status = "success"
                                       THEN "confirmed" ELSE "failed"
                    /\ new.confirmations = confirmations
                    /\ new.confirmed_at = now
               ELSE /\ new.status = old.status
                    /\ new.confirmations = confirmations
                    /\ new.confirmed_at = old.confirmed_at]_vars

\* the row included at FirstBlock on a chain that requires 2 confirmations was
\* swept one block later (still pending, confirmations 1) and a second sweep is
\* about to confirm it at depth 2
C9_Witness ==
  \E id \in RecIds, s \in Sweepers :
    /\ store[id].chain = "base-sepolia" /\ store[id].receipt.found
    /\ store[id].receipt.blockNumber = FirstBlock
    /\ store[id].status = "pending" /\ store[id].confirmations = 1
    /\ sweeps[s].pc = "update" /\ sweeps[s].batch[sweeps[s].idx] = id
    /\ sweeps[s].currentBlock = FirstBlock + 2

\* C10: if the store is configured, sweeps keep firing and blocks keep coming,
\* every pending or partial_settlement row whose transaction has a receipt
\* eventually becomes confirmed or failed, however many other non-terminal rows
\* (also rows whose check always fails) the store holds.
C10_ReceiptedRowEventuallyTerminal ==
  \A id \in RecIds :
    (store[id].status \in NonTerminal /\ store[id].receipt.found
       /\ store[id].chain \in DOMAIN CHAINS)
      ~> (store[id].status \in Terminal)

(***************************************************************************)
(* Claims about the Settler's amounts and failures.                        *)
(***************************************************************************)
\* C21: for every settlement the gateway reports as confirmed, the amount the
\* merchant's transaction moved on-chain is the net amount of the response
\* (the gross amount minus the fee), under both strategies.
C21_MerchantReceivesNet ==
  \A r \in ReqIds :
    LET rq == reqs[r]
    IN  (/\ rq.pc = "done" /\ rq.served = "handler" /\ rq.route = "/settle"
         /\ rq.response.kind = "settle" /\ rq.response.status = "confirmed")
        => /\ txs[rq.response.txHash].role = "merchant"
           /\ txs[rq.response.txHash].receipt = "success"
           /\ txs[rq.response.txHash].value = rq.response.net

\* C29: the relayer strategy submits its two transferFrom transactions
\* concurrently: while the merchant submission has not completed, the fee
\* submission does not wait for it (its step can be taken).
C29_FeeSubmissionDoesNotWait ==
  \A r \in ReqIds :
    reqs[r].pc = "write1" /\ ~UsesEIP3009(BodyOf(reqs[r])) => ENABLED BroadcastFee(r)

\* the fee transfer of a finished relayer settlement did not succeed: its
\* submission threw, the wait for the receipts threw, or it reverted
FeeDidNotSucceed(rq) ==
  \/ Len(rq.hashes) = 1
  \/ rq.code = 400
  \/ txs[rq.hashes[2]].receipt = "reverted"

\* C30: in the relayer strategy, whenever the merchant transferFrom has been
\* broadcast and the fee transferFrom does not succeed, the settlement ends as
\* partial_settlement carrying the merchant transaction hash, never as
\* confirmed and never as an error without the hash.
C30_FeeFailureIsPartial ==
  \A r \in ReqIds :
    LET rq == reqs[r]
    IN  (/\ rq.pc = "done" /\ rq.served = "handler" /\ rq.route = "/settle"
         /\ ~UsesEIP3009(BodyOf(rq)) /\ Len(rq.hashes) >= 1
         /\ FeeDidNotSucceed(rq))
        => /\ rq.response.kind = "settle"
           /\ rq.response.status = "partial_settlement"
           /\ rq.response.txHash = rq.hashes[1]

\* the cache key of a request
KeyOf(rq) == CacheKeyOf(rq.route, BodyOf(rq), rq.idempotencyKey)

\* request q ended in an error after the Settler had broadcast for it
ThrewAfterBroadcast(q) ==
  /\ reqs[q].pc = "done" /\ reqs[q].route = "/settle"
  /\ reqs[q].response.kind = "error" /\ Len(reqs[q].hashes) >= 1

\* request r arrived after q, which has the same cache key, had ended
ArrivedAfter(r, q) ==
  /\ q < r /\ reqs[r].pc # "new" /\ KeyOf(reqs[r]) = KeyOf(reqs[q])
  /\ q \notin reqs[r].inFlight

\* C24: when /settle ends in an error after its transaction was broadcast, the
\* reply is a 400, no idempotency entry is written and the transaction stays
\* broadcast; a later request with the same fingerprint is served from the
\* cache only if another request stored a response, and otherwise goes
\* through the Verifier again: it is rejected when the nonce is consumed and
\* settled anew when the Verifier accepts it.
C24_FailedSettleIsNotCached ==
  \A q \in ReqIds :
    ThrewAfterBroadcast(q) =>
      /\ reqs[q].code = 400
      /\ ~Logged(reqs[q], "stored")
      /\ cache[KeyOf(reqs[q])].present => cache[KeyOf(reqs[q])].body.kind # "error"
      /\ \A i \in 1..Len(reqs[q].hashes) : txs[reqs[q].hashes[i]].req = q
      /\ \A r \in ReqIds :
           ArrivedAfter(r, q) =>
             LET rq == reqs[r]
             IN  /\ rq.hitAtEntry =>
                       \E p \in ReqIds \ {r} :
                         KeyOf(reqs[p]) = KeyOf(rq) /\ Logged(reqs[p], "stored")
                 /\ ~rq.hitAtEntry =>
                       /\ rq.served # "cache"
                       /\ rq.pc \notin {"balance", "authorization"} => Logged(rq, "verified")
                       /\ rq.verification.done /\ rq.usedAtEntry
                            => ~rq.verification.isValid
                       /\ (rq.verification.done /\ rq.verification.isValid
                            /\ rq.pc = "done")
                            => Logged(rq, "write") \/ rq.response.kind = "error"

\* a /settle request threw while waiting for the receipt of its broadcast
\* transaction, and the next request with the same fingerprint passed the
\* Verifier and broadcast a second transaction
C24_Witness ==
  \E q, r \in ReqIds :
    /\ ThrewAfterBroadcast(q) /\ ArrivedAfter(r, q)
    /\ ~reqs[r].hitAtEntry /\ reqs[r].verification.done /\ reqs[r].verification.isValid
    /\ Len(reqs[r].hashes) >= 1 /\ txs[reqs[r].hashes[1]].req = r
    /\ txs[reqs[q].hashes[1]].req = q

(***************************************************************************)
(* Claims about the order of the Verifier's checks and its last check.     *)
(***************************************************************************)
\* the reason of the first check that fails when the checks run in the order
\* network, header, token, amount, validAfter, validBefore, balance, then
\* nonce or allowance ("null" when none fails)
FirstFailure(request, env) ==
  LET pr     == request.paymentRequirements
      chain  == getChainConfig(pr.network)
      auth   == parsePaymentHeader(request.paymentHeader)
      addr   == getTokenAddress(pr.network, pr.asset)
      amount == BigInt(pr)
      bal    == VerifyBalance(request, env.balanceOf)
  IN  IF ~chain.ok THEN chain.error
      ELSE IF ~auth.ok THEN auth.error
      ELSE IF ~addr.ok THEN addr.error
      ELSE IF ~amount.ok THEN amount.error
      ELSE IF NotYetValid(auth.value, env.now) THEN "Authorization not yet valid"
      ELSE IF Expired(auth.value, env.now) THEN "Authorization expired"
      ELSE IF bal.done THEN bal.invalidReason
      ELSE VerifyAuthorization(request, env.authorizationState, env.allowance,
                               env.facilitatorKey).invalidReason

\* C26: verifyPaymentManaged runs its checks in the order network resolution,
\* header normalization, token lookup, amount parse, validAfter, validBefore,
\* balance, nonce or allowance, and returns the reason of the first check
\* that fails; after a failed check it reads nothing from the chain.
C26_ChecksInFixedOrder ==
  call.pc = "returned" =>
    /\ call.result.invalidReason = FirstFailure(call.request, call.env)
    /\ call.result.invalidReason
          \in {"Authorization not yet valid", "Authorization expired"}
        => call.reads = <<>>
    /\ call.result.invalidReason = "Insufficient balance" => call.reads = <<"balanceOf">>

\* the call gets as far as the last check: nothing before the balance read
\* rejects, and the balance read returns a balance that covers the amount
ReachesLastCheck(request, env) ==
  /\ ReachesBalanceCheck(request, env)
  /\ env.balanceOf.ok
  /\ env.balanceOf.value >= request.paymentRequirements.maxAmountRequired

\* C27: the last check follows the token's supportsEIP3009 flag: for an
\* EIP-3009 token the Verifier reads authorizationState and never allowance;
\* for the other tokens it reads allowance and never authorizationState, and
\* rejects exactly when the allowance is below the amount (an allowance equal
\* to the amount is accepted).
C27_LastCheckFollowsToken ==
  (call.pc = "returned" /\ ReachesLastCheck(call.request, call.env)) =>
    LET pr == call.request.paymentRequirements
    IN  IF TOKENS[ToLowerCase(pr.asset)].supportsEIP3009
          THEN call.reads = <<"balanceOf", "authorizationState">>
          ELSE /\ call.env.facilitatorKey => call.reads = <<"balanceOf", "allowance">>
               /\ \A i \in 1..Len(call.reads) : call.reads[i] # "authorizationState"
               /\ (call.env.facilitatorKey /\ call.env.allowance.ok) =>
                    /\ call.result.isValid
                          <=> call.env.allowance.value >= pr.maxAmountRequired
                    /\ ~call.result.isValid =>
                          call.result.invalidReason = "Insufficient allowance"

\* a request for a token without EIP-3009 whose allowance equals the amount was
\* accepted after the allowance was read
C27_Witness ==
  /\ call.pc = "returned" /\ call.result.isValid
  /\ ~TOKENS[ToLowerCase(call.request.paymentRequirements.asset)].supportsEIP3009
  /\ call.reads = <<"balanceOf", "allowance">>
  /\ call.env.allowance.value = call.request.paymentRequirements.maxAmountRequired

\* C28: a payment header that carries no signature at all is never reported
\* valid: the Verifier answers isValid false with the reason 'Missing
\* signature' unless an earlier check has failed.
C28_UnsignedIsRejected ==
  (call.pc = "returned" /\ ~call.request.paymentHeader.signed) =>
    /\ ~call.result.isValid
    /\ (getChainConfig(call.request.paymentRequirements.network).ok
        /\ call.request.paymentHeader.format = "standard")
        => call.result.invalidReason = "Missing signature"

(***************************************************************************)
(* Claims about the registry.                                              *)
(***************************************************************************)
\* the token the asset string names has the network slug in its address map
AddressListed(network, asset) ==
  /\ ToLowerCase(asset) \in DOMAIN TOKENS
  /\ network \in DOMAIN TOKENS[ToLowerCase(asset)].addresses

\* C25: a (network, token) pair is supported exactly when the token's address
\* map contains the network slug: isSupported is true for exactly those pairs,
\* getTokenAddress succeeds for exactly those pairs, and
\* getSupportedAssets(network) lists exactly the tokens whose map contains the
\* network.
C25_SupportedIffAddressListed ==
  call.pc = "returned" =>
    /\ call.result.isSupported <=> AddressListed(call.network, call.asset)
    /\ call.result.getTokenAddress.ok <=> AddressListed(call.network, call.asset)
    /\ {call.result.getSupportedAssets[i] : i \in 1..Len(call.result.getSupportedAssets)}
         = {t \in DOMAIN TOKENS : call.network \in DOMAIN TOKENS[t].addresses}

(***************************************************************************)
(* Claims about the middleware: Idempotency-Key and the rate limiter.      *)
(***************************************************************************)
\* the cache entry under an Idempotency-Key
EntryOf(key) == cache[<<"Idempotency-Key", key>>]

\* request p, sent with this Idempotency-Key, stored this response
StoredUnder(p, key, response) ==
  /\ reqs[p].idempotencyKey = key /\ Logged(reqs[p], "stored")
  /\ reqs[p].response = response

\* a request served from the cache sent the Idempotency-Key of the request
\* that stored the response, and was neither verified nor settled
KeyedHitIsTheStoredReply ==
  \A r \in ReqIds :
    (reqs[r].idempotencyKey # NoKey /\ reqs[r].hitAtEntry) =>
      /\ reqs[r].pc = "done" /\ reqs[r].served = "cache" /\ reqs[r].code = 200
      /\ \E p \in ReqIds \ {r} :
           StoredUnder(p, reqs[r].idempotencyKey, reqs[r].response)
      /\ ~Logged(reqs[r], "verified") /\ reqs[r].hashes = <<>>
      /\ \A h \in 1..Len(txs) : txs[h].req # r

\* a request that arrives with an Idempotency-Key whose entry is within the
\* TTL is answered with the entry's body, whatever its own body is
KeyedArrival ==
  \A r \in ReqIds :
    (/\ reqs[r].pc = "new" /\ reqs'[r].pc # "new"
     /\ reqs'[r].idempotencyKey # NoKey
     /\ Live(EntryOf(reqs'[r].idempotencyKey), now'))
    => /\ reqs'[r].pc = "done" /\ reqs'[r].served = "cache"
       /\ reqs'[r].response = EntryOf(reqs'[r].idempotencyKey).body

\* C23: an Idempotency-Key header replaces the body-derived fingerprint: a
\* later request with the same key within the TTL gets the stored body of the
\* first and causes no verification or settlement even if its body differs,
\* and a request is served from the cache only under its own key, so that
\* identical bodies sent with different keys are processed independently.
C23_KeyReplacesFingerprint == []KeyedHitIsTheStoredReply /\ [][KeyedArrival]_vars

\* a request was answered from the cache with the response another request
\* stored under the same Idempotency-Key for a different body
C23_Witness ==
  \E p, r \in ReqIds :
    /\ p # r /\ reqs[r].served = "cache" /\ reqs[r].idempotencyKey # NoKey
    /\ StoredUnder(p, reqs[r].idempotencyKey, reqs[r].response)
    /\ reqs[p].body # reqs[r].body

\* a request answered 429 is a POST to /verify or /settle for which nothing
\* else happened: no cache lookup, no verification, no settlement, no cache
\* write; a GET request is never answered 429
LimitedReplyDidNothing ==
  \A r \in ReqIds :
    /\ reqs[r].code = 429 =>
         /\ reqs[r].route \in Routes /\ reqs[r].served = "limiter"
         /\ ~reqs[r].hitAtEntry /\ reqs[r].verification = NoVerification
         /\ reqs[r].hashes = <<>> /\ reqs[r].log = <<"replied">>
         /\ \A h \in 1..Len(txs) : txs[h].req # r
    /\ reqs[r].route \in GetRoutes => reqs[r].code = 200

\* a request arrives: a POST in a window whose limit is used up is answered 429
\* and leaves the cache and the chain untouched, even when the cache holds a
\* response for it; a POST within the limit is not answered 429; a GET is
\* answered 200 and is not counted
RateArrival ==
  \A r \in ReqIds :
    (reqs[r].pc = "new" /\ reqs'[r].pc # "new") =>
      LET over == CurrentWindow(now').count >= config.rateLimit.max
      IN  /\ (reqs'[r].route \in Routes /\ over) =>
                /\ reqs'[r].code = 429 /\ reqs'[r].pc = "done"
                /\ UNCHANGED <<cache, txs, balance, allowance, authUsed>>
          /\ (reqs'[r].route \in Routes /\ ~over) =>
                /\ reqs'[r].code # 429
                /\ limiter'.count = CurrentWindow(now').count + 1
          /\ reqs'[r].route \in GetRoutes =>
                /\ reqs'[r].code = 200 /\ limiter' = limiter

C39_TransferIsWhatWasVerified ==
  \A h \in 1..Len(txs) :
    txs[h].fn = "transferWithAuthorization" =>
      LET requirements == BodyOf(reqs[txs[h].req]).paymentRequirements
      IN  /\ txs[h].value = requirements.maxAmountRequired
          /\ txs[h].to = requirements.payTo

\* the transactions submitted for request r
SubmittedFor(r) == {h \in 1..Len(txs) : txs[h].req = r}

C38_ConfirmationsNeverDecrease ==
  /\ [](\A id \in RecIds : store[id].confirmations >= 0)
  /\ [][\A id \in RecIds : store'[id].confirmations >= store[id].confirmations]_vars

\* C37: a row of a relayer settlement is confirmed only if both of its
\* transactions succeeded: the Confirmer moves a partial_settlement row to
\* confirmed only then, and a row whose fee transfer reverted is never
\* confirmed.
C37_ConfirmedNeedsBothTransfers ==
  /\ [](\A id \in RecIds :
          (store[id].tx_hash_fee # NoHash /\ store[id].status = "confirmed")
            => /\ store[id].receipt.status = "success"
               /\ store[id].fee_receipt.status = "success")
  /\ [][\A id \in RecIds :
          (store[id].status = "partial_settlement" /\ store'[id].status = "confirmed")
            => /\ store[id].receipt.status = "success"
               /\ store[id].fee_receipt.status = "success"]_vars

(***************************************************************************)
(* Payment headers: the shapes parsePaymentHeader accepts and the          *)
(* signature settleWithEIP3009 takes from the authorization it returns.    *)
(* A JavaScript object is a function from its own property names to their  *)
(* values (a name outside the domain reads undefined), a string of hex      *)
(* digits is the sequence of its characters.                               *)
(***************************************************************************)
HexChars ==
  <<"0", "1", "2", "3", "4", "5", "6", "7", "8", "9", "a", "b", "c", "d", "e", "f">>

IsHex(c) == \E i \in 1..16 : HexChars[i] = c
HexValue(c) == (CHOOSE i \in 1..16 : HexChars[i] = c) - 1

\* what parseInt returns for a string that does not start with a digit
NaN == -1

\* the number of leading hex digits of str
RECURSIVE LeadingHex(_)
LeadingHex(str) ==
  IF str = <<>> \/ ~IsHex(Head(str)) THEN 0 ELSE 1 + LeadingHex(Tail(str))

RECURSIVE HexNumber(_)
HexNumber(digits) ==
  IF digits = <<>> THEN 0
  ELSE 16 * HexNumber(SubSeq(digits, 1, Len(digits) - 1)) + HexValue(digits[Len(digits)])

\* parseInt(str, 16): the value of the leading hex digits, NaN without any
parseInt(str) ==
  IF LeadingHex(str) = 0 THEN NaN ELSE HexNumber(SubSeq(str, 1, LeadingHex(str)))

\* String.prototype.slice(start, end) for 0 <= start <= end
slice(str, start, end) == SubSeq(str, Min(start, Len(str)) + 1, Min(end, Len(str)))

\* signature.startsWith('0x')
startsWith0x(str) == Len(str) >= 2 /\ str[1] = "0" /\ str[2] = "x"

\* the own properties of obj among keys
Pick(obj, keys) == [k \in (keys \cap DOMAIN obj) |-> obj[k]]

AuthKeys == {"from", "to", "value", "validAfter", "validBefore", "nonce"}
SigKeys  == {"signature", "v", "r", "s"}

\* `parsed.from && parsed.nonce`, `auth.v && auth.r && auth.s`, `!signature`:
\* undefined, the number 0 and the empty string are falsy, an object is truthy
TruthyProperty(obj, key) ==
  /\ key \in DOMAIN obj
  /\ CASE key \in {"v", "validAfter", "validBefore"} -> obj[key] # 0
       [] key \in {"signature", "r", "s"}            -> obj[key] # <<>>
       [] key \in {"payload", "authorization"}       -> TRUE
       [] OTHER                                      -> obj[key] # ""

\* A JSON text is the list of the members of its object, in the order they
\* were written, each value a text of its own or an atom (string or number).
RECURSIVE JsonValue(_)
\* JSON.parse of a well-formed text: of members with one name the last wins
JsonValue(text) ==
  IF text.t = "atom" THEN text.a
  ELSE LET names     == {text.members[i].k : i \in DOMAIN text.members}
           LastOf(k) == CHOOSE i \in DOMAIN text.members :
                          /\ text.members[i].k = k
                          /\ \A j \in DOMAIN text.members :
                               text.members[j].k = k => j <= i
       IN  [k \in names |-> JsonValue(text.members[LastOf(k)].v)]

\* `JSON.parse(Buffer.from(header, 'base64').toString())`
JsonParse(text) ==
  IF text.t = "garbage"
    THEN [ok |-> FALSE, error |-> "Unexpected token in JSON"]
    ELSE [ok |-> TRUE, value |-> JsonValue(text)]

\* the order in which the clients write the properties of a header
KeyOrder ==
  <<"payload", "authorization", "from", "sender", "to", "value", "validAfter",
    "validBefore", "nonce", "signature", "v", "r", "s">>

RECURSIVE JsonStringify(_), JsonMembers(_, _)
JsonMembers(obj, i) ==
  IF i > Len(KeyOrder) THEN <<>>
  ELSE LET k == KeyOrder[i]
       IN  (IF k \in DOMAIN obj
              THEN << [k |-> k,
                       v |-> IF k \in {"payload", "authorization"}
                               THEN JsonStringify(obj[k])
                               ELSE [t |-> "atom", a |-> obj[k]]] >>
              ELSE <<>>) \o JsonMembers(obj, i + 1)

\* `Buffer.from(JSON.stringify(paymentHeader)).toString('base64')`: properties
\* that are undefined are not written
JsonStringify(obj) == [t |-> "object", members |-> JsonMembers(obj, 1)]

\* mutant of parseHeaderShapes: the flat shape is tested before the nested one
parseHeaderShapes_FlatFirst(parsed) ==
  IF TruthyProperty(parsed, "from") /\ TruthyProperty(parsed, "nonce")
    THEN [ok |-> TRUE, value |-> Pick(parsed, AuthKeys \cup SigKeys)]
  ELSE IF /\ TruthyProperty(parsed, "payload")
          /\ TruthyProperty(parsed.payload, "authorization")
    THEN [ok |-> TRUE,
          value |-> Pick(parsed.payload.authorization, AuthKeys) @@ Pick(parsed, SigKeys)]
  ELSE IF TruthyProperty(parsed, "sender") /\ TruthyProperty(parsed, "nonce")
    THEN [ok |-> TRUE,
          value |-> ("from" :> parsed.sender)
                      @@ Pick(parsed, (AuthKeys \ {"from"}) \cup SigKeys)]
  ELSE [ok |-> FALSE, error |-> "Invalid payment header format"]

\* parsePaymentHeader from `// Normalize to consistent format` on: the three
\* shapes in the order of the if statements.  The nested shape takes the six
\* fields from payload.authorization and signature, v, r, s from the top level.
parseHeaderShapes(parsed) ==
  IF /\ TruthyProperty(parsed, "payload")
     /\ TruthyProperty(parsed.payload, "authorization")
    THEN [ok |-> TRUE,
          value |-> Pick(parsed.payload.authorization, AuthKeys) @@ Pick(parsed, SigKeys)]
  ELSE IF TruthyProperty(parsed, "from") /\ TruthyProperty(parsed, "nonce")
    THEN [ok |-> TRUE, value |-> Pick(parsed, AuthKeys \cup SigKeys)]
  ELSE IF TruthyProperty(parsed, "sender") /\ TruthyProperty(parsed, "nonce")
    THEN [ok |-> TRUE,
          value |-> ("from" :> parsed.sender)
                      @@ Pick(parsed, (AuthKeys \ {"from"}) \cup SigKeys)]
  ELSE [ok |-> FALSE, error |-> "Invalid payment header format"]

\* parsePaymentHeader of a header given as an object or as a string
parseHeader(header) ==
  IF header.t = "string"
    THEN IF JsonParse(header.text).ok
           THEN parseHeaderShapes(JsonParse(header.text).value)
           ELSE JsonParse(header.text)
    ELSE parseHeaderShapes(header.o)

\* mutant of splitSignature: the 0x prefix is not removed before slicing
splitSignature_KeepsPrefix(sig) ==
  IF /\ sig.t = "object" /\ TruthyProperty(sig.o, "v")
     /\ TruthyProperty(sig.o, "r") /\ TruthyProperty(sig.o, "s")
    THEN [ok |-> TRUE, value |-> [v |-> sig.o.v, r |-> sig.o.r, s |-> sig.o.s]]
  ELSE IF (IF sig.t = "string" THEN sig.s = <<>> ELSE ~TruthyProperty(sig.o, "signature"))
    THEN [ok |-> FALSE, error |-> "Missing signature"]
  ELSE LET signature == IF sig.t = "string" THEN sig.s ELSE sig.o.signature
           cleanSig  == signature
       IN  [ok |-> TRUE,
            value |-> [r |-> <<"0", "x">> \o slice(cleanSig, 0, 64),
                       s |-> <<"0", "x">> \o slice(cleanSig, 64, 128),
                       v |-> parseInt(slice(cleanSig, 128, 130))]]

\* splitSignature(sig) for a string or an object: the split parts of the
\* object if all are truthy, else the slices of the combined signature
splitSignature(sig) ==
  IF /\ sig.t = "object" /\ TruthyProperty(sig.o, "v")
     /\ TruthyProperty(sig.o, "r") /\ TruthyProperty(sig.o, "s")
    THEN [ok |-> TRUE, value |-> [v |-> sig.o.v, r |-> sig.o.r, s |-> sig.o.s]]
  ELSE IF (IF sig.t = "string" THEN sig.s = <<>> ELSE ~TruthyProperty(sig.o, "signature"))
    THEN [ok |-> FALSE, error |-> "Missing signature"]
  ELSE LET signature == IF sig.t = "string" THEN sig.s ELSE sig.o.signature
           cleanSig  == IF startsWith0x(signature)
                          THEN slice(signature, 2, Len(signature)) ELSE signature
       IN  [ok |-> TRUE,
            value |-> [r |-> <<"0", "x">> \o slice(cleanSig, 0, 64),
                       s |-> <<"0", "x">> \o slice(cleanSig, 64, 128),
                       v |-> parseInt(slice(cleanSig, 128, 130))]]

\* `const { v, r, s } = auth.v && auth.r && auth.s ? { v: auth.v, r: auth.r,
\* s: auth.s } : splitSignature(auth.signature || auth)`
SettlementSignature(auth) ==
  IF TruthyProperty(auth, "v") /\ TruthyProperty(auth, "r") /\ TruthyProperty(auth, "s")
    THEN [ok |-> TRUE, value |-> [v |-> auth.v, r |-> auth.r, s |-> auth.s]]
  ELSE IF TruthyProperty(auth, "signature")
    THEN splitSignature([t |-> "string", s |-> auth.signature])
  ELSE splitSignature([t |-> "object", o |-> auth])

\* ---- the headers the clients send ----
\* the (v, r, s) of the signatures of the modelled payers; r and s are 32-byte
\* words in hex, 0x-prefixed
Components ==
  LET Word(first, fill, last) ==
        <<"0", "x", first>> \o [i \in 1..62 |-> fill] \o <<last>>
  IN  [v : {27, 28}, r : {Word("1", "a", "2"), Word("0", "0", "7")},
       s : {Word("3", "c", "4")}]

\* the byte as two hex digits
toHex(v) == <<HexChars[(v \div 16) + 1], HexChars[(v % 16) + 1]>>

\* the combined 65-byte signature r || s || v, with or without 0x
combine(v, r, s, prefixed) ==
  (IF prefixed THEN <<"0", "x">> ELSE <<>>) \o slice(r, 2, 66) \o slice(s, 2, 66) \o toHex(v)

NoSignature == [present |-> FALSE]
\* a combined signature as the client made it: its components and its prefix
CombinedSignatures ==
  {NoSignature} \cup [present : {TRUE}, of : Components, prefixed : BOOLEAN]

\* the split v, r, s a header carries: none, all three (v possibly 0), or r
\* and s without v
SplitParts ==
  {<<>>}
    \cup {[v |-> v, r |-> c.r, s |-> c.s] : v \in {27, 28, 0}, c \in Components}
    \cup {[r |-> c.r, s |-> c.s] : c \in Components}

Authorizations ==
  {[from |-> "payer", to |-> "merchant", value |-> "200", nonce |-> "n1"],
   [from |-> "payer", to |-> "merchant", value |-> "250", nonce |-> "n2",
    validAfter |-> 1, validBefore |-> 9]}

Shapes ==
  {"nested", "flat", "simple", "nested+flat", "flat+sender", "no nonce", "no payer"}

\* what a client puts into a header: the authorization, the shape, the
\* top-level signature and split parts, and payload.signature (nested shapes)
HeaderCases ==
  {c \in [shape : Shapes, auth : Authorizations, signature : CombinedSignatures,
          split : SplitParts, payloadSignature : CombinedSignatures,
          encoded : BOOLEAN] :
     c.payloadSignature.present => c.shape \in {"nested", "nested+flat"}}

\* serialize: the header object of a case.  A header of two shapes at once
\* carries the authorization of another payer at its top level.
HeaderObject(c) ==
  LET SignatureProperty(sig) ==
        IF sig.present
          THEN "signature" :> combine(sig.of.v, sig.of.r, sig.of.s, sig.prefixed)
          ELSE <<>>
      other  == [from |-> "other", to |-> "merchant", value |-> "999", nonce |-> "n9"]
      top    == SignatureProperty(c.signature) @@ c.split
      nested == "payload" :> (("authorization" :> c.auth)
                                @@ SignatureProperty(c.payloadSignature))
  IN  CASE c.shape = "nested"      -> nested @@ top
        [] c.shape = "nested+flat" -> nested @@ other @@ top
        [] c.shape = "flat"        -> c.auth @@ top
        [] c.shape = "flat+sender" -> c.auth @@ ("sender" :> "other") @@ top
        [] c.shape = "simple"      ->
             ("sender" :> c.auth.from) @@ Pick(c.auth, AuthKeys \ {"from"}) @@ top
        [] c.shape = "no nonce"    -> Pick(c.auth, AuthKeys \ {"nonce"}) @@ top
        [] c.shape = "no payer"    -> Pick(c.auth, AuthKeys \ {"from"}) @@ top

\* the paymentHeader of the request: the object, or its base64-encoded JSON
HeaderOf(c) ==
  IF c.encoded THEN [t |-> "string", text |-> JsonStringify(HeaderObject(c))]
  ELSE [t |-> "object", o |-> HeaderObject(c)]

NotReached == [ok |-> FALSE, error |-> "not reached"]

InitHeader ==
  /\ InitRest
  /\ \/ \E c \in HeaderCases :
          call = [pc |-> "called", case |-> c, header |-> HeaderOf(c),
                  auth |-> NotReached, signature |-> NotReached]
     \/ call = [pc |-> "called",
                case |-> [shape |-> "undecodable", encoded |-> TRUE],
                header |-> [t |-> "string", text |-> [t |-> "garbage"]],
                auth |-> NotReached, signature |-> NotReached]

\* settleWithEIP3009 from parsePaymentHeader to the signature it will submit
HeaderReturns ==
  /\ call.pc = "called"
  /\ LET auth == parseHeader(call.header)
     IN  call' = [call EXCEPT !.pc = "returned", !.auth = auth,
                              !.signature = IF auth.ok THEN SettlementSignature(auth.value)
                                            ELSE NotReached]
  /\ UNCHANGED <<gwVars, confVars, now, rpcFlaky, config, traffic>>

NextHeader == HeaderReturns

SpecHeader == InitHeader /\ [][NextHeader]_vars

(***************************************************************************)
(* Claims about header normalization and signature decomposition.          *)
(***************************************************************************)
\* C31: a header is classified by the first shape that matches, in the order
\* payload.authorization, then from and nonce, then sender and nonce (sender
\* becoming from); a header that matches none is rejected with the invalid
\* header error; and for each shape the from, to, value, validAfter,
\* validBefore and nonce of the result are those of the authorization the
\* header was made from.
C31_NormalizeRecoversAuthorization ==
  call.pc = "returned" =>
    CASE call.case.shape \in {"nested", "flat", "simple", "nested+flat", "flat+sender"} ->
           /\ call.auth.ok
           /\ Pick(call.auth.value, AuthKeys) = call.case.auth
      [] call.case.shape \in {"no nonce", "no payer"} ->
           /\ ~call.auth.ok
           /\ call.auth.error = "Invalid payment header format"
      [] OTHER -> ~call.auth.ok

\* a base64-encoded header of the simple shape, with a validity window, was
\* normalized: its sender is the from of the result
C31_Witness ==
  /\ call.pc = "returned" /\ call.case.shape = "simple" /\ call.case.encoded
  /\ call.case.auth.nonce = "n2"
  /\ call.auth.ok /\ call.auth.value.from = "payer" /\ call.auth.value.validBefore = 9
  /\ "sender" \notin DOMAIN call.auth.value

\* C32: for a header of the nested shape that carries its combined signature
\* at payload.signature and has no signature, v, r or s at the top level, the
\* normalized authorization holds the signature of payload.signature and the
\* settlement uses the v, r, s that signature decomposes into.
C32_PayloadSignatureIsUsed ==
  (/\ call.pc = "returned" /\ call.case.shape \in {"nested", "nested+flat"}
   /\ call.case.payloadSignature.present
   /\ ~call.case.signature.present /\ DOMAIN call.case.split = {})
  => /\ call.auth.ok
     /\ "signature" \in DOMAIN call.auth.value
     /\ call.auth.value.signature =
          combine(call.case.payloadSignature.of.v, call.case.payloadSignature.of.r,
                  call.case.payloadSignature.of.s, call.case.payloadSignature.prefixed)
     /\ call.signature.ok
     /\ call.signature.value = call.case.payloadSignature.of

\* the header carries v, r and s, all non-zero
HasSplitSignature(c) == DOMAIN c.split = {"v", "r", "s"} /\ c.split.v # 0

\* C33: the settlement uses the v, r, s of the header unchanged when all three
\* are present and non-zero, whatever the combined signature says; otherwise it
\* splits the 65-byte combined signature, with or without 0x, into r (bytes 0
\* to 32), s (bytes 32 to 64) and v (byte 64), which are the components the
\* signature was combined from; without either it fails with Missing signature.
C33_SplitRecoversComponents ==
  (call.pc = "returned" /\ call.auth.ok) =>
    IF HasSplitSignature(call.case)
      THEN call.signature.ok /\ call.signature.value = call.case.split
    ELSE IF call.case.signature.present
      THEN call.signature.ok /\ call.signature.value = call.case.signature.of
    ELSE ~call.signature.ok /\ call.signature.error = "Missing signature"

\* a header with v = 0 beside r and s, and a 0x-prefixed combined signature of
\* other components: the settlement uses the components of the combined one
C33_Witness ==
  /\ call.pc = "returned" /\ call.auth.ok
  /\ DOMAIN call.case.split = {"v", "r", "s"} /\ call.case.split.v = 0
  /\ call.case.signature.present /\ call.case.signature.prefixed
  /\ call.case.signature.of.r # call.case.split.r
  /\ call.signature.ok /\ call.signature.value.v = 28
  /\ call.signature.value.r = call.case.signature.of.r

(***************************************************************************)
(* Claims about agent anchoring and the handlers' error replies.           *)
(***************************************************************************)
\* the settlement of rq returned and the handler called linkAgentIdentity,
\* which has returned
AnchoringReturned(rq) ==
  /\ rq.route = "/settle" /\ Logged(rq, "outcome")
  /\ AnchoringAttempted(BodyOf(rq)) /\ rq.pc # "anchor"

Failed(rq) == rq.pc = "done" /\ rq.served = "handler" /\ rq.code # 200

\* C36: on /verify and /settle a body the schema rejects and every thrown
\* Error, a failure of the Settler included, are answered 400 with the code
\* VERIFICATION_ERROR or SETTLEMENT_ERROR of the route; a thrown value that is
\* no Error is answered 500 with the code INTERNAL_ERROR; and the handler that
\* answers so writes no idempotency entry.
C36_ErrorMapping ==
  /\ [](\A r \in ReqIds :
          LET rq == reqs[r]
              asError == /\ rq.code = 400 /\ rq.response.kind = "error"
                         /\ rq.response.code = IF rq.route = "/verify"
                                                 THEN "VERIFICATION_ERROR"
                                                 ELSE "SETTLEMENT_ERROR"
          IN  /\ (rq.pc # "new" /\ ~rq.hitAtEntry /\ ~BodyOf(rq).schemaValid)
                   => Failed(rq) /\ asError /\ ~Logged(rq, "verified")
              /\ Logged(rq, "threw Error") => Failed(rq) /\ asError
              /\ (Logged(rq, "write") /\ Failed(rq) /\ ~Logged(rq, "threw value"))
                   => asError /\ rq.response.code = "SETTLEMENT_ERROR"
              /\ Logged(rq, "threw value")
                   => /\ Failed(rq) /\ rq.code = 500 /\ rq.response.kind = "error"
                      /\ rq.response.code = "INTERNAL_ERROR"
                      /\ rq.response.error = "Internal server error"
              /\ Failed(rq) => rq.code \in {400, 500} /\ ~Logged(rq, "stored"))
  /\ [][\A r \in ReqIds :
          (~Failed(reqs[r]) /\ Failed(reqs'[r])) => cache' = cache]_vars

\* a /verify request with a malformed body was answered 400 and a settlement
\* whose response could not be stored, throwing a value, was answered 500
C36_Witness ==
  \E r, q \in ReqIds :
    /\ reqs[r].route = "/verify" /\ ~BodyOf(reqs[r]).schemaValid
    /\ reqs[r].code = 400 /\ reqs[r].response.code = "VERIFICATION_ERROR"
    /\ reqs[q].route = "/settle" /\ Logged(reqs[q], "threw value")
    /\ reqs[q].code = 500 /\ reqs[q].response.code = "INTERNAL_ERROR"
    /\ \A k \in DOMAIN cache : ~cache[k].present

====
